---- MODULE Spec2Model ----
(***************************************************************************)
(* Model of the relay server embedded in ServerSetup.tsx (xspace.py):      *)
(* AudioStreamProcessor (start_stream / stop_stream / run_ffmpeg /         *)
(* process_audio / watchdog_loop / transcribe_and_distribute),             *)
(* ConnectionManager, translate_text, websocket_endpoint and the score     *)
(* signature of submit_score with its client, submitScore of               *)
(* TetrisWidget.tsx.                                                       *)
(*                                                                         *)
(* The server is one asyncio event loop.  A coroutine runs without         *)
(* interruption from one suspension point (an await that really waits) to  *)
(* the next, so every action below is "resume one task and run it to its   *)
(* next suspension point".  The position a task is suspended at is its pc. *)
(***************************************************************************)
EXTENDS Integers, Sequences, FiniteSets, TLC

\* ---------------------------------------------------------------- bounds
MaxStarts == 2        \* Spec: 'stream' requests received in one run
MaxChunks == 1        \* Spec: chunks one ffmpeg subprocess delivers
NumSockets == 1       \* Spec: websockets accepted
FanSockets == 1       \* FanSpec: websockets accepted
FanChunks == 2        \* FanSpec: chunks the running session's subprocess delivers
RegSockets == 2       \* RegistrySpec: websockets accepted
StatSockets == 2      \* StatsSpec: websockets accepted
RegChunks == 1        \* RegistrySpec: chunks the subprocess delivers
NumKeys == 2          \* len(clients): credentials the deployment is given
BUFFER_SIZE == 2      \* a scaled BUFFER_SIZE: bytes that fill one segment
MAX_HISTORY_ITEMS == 2  \* a scaled MAX_HISTORY_ITEMS (3000 in the source)
MaxNow == 25          \* WatchdogSpec: minutes of wall time a run covers
PassSockets == 2      \* PassSpec: listeners registered when the run starts
PassChunks == 2       \* PassSpec: chunks the subprocess delivers
HistTexts == 3        \* HistorySpec: distinct transcripts handed to add_history
MaxNameLen == 2       \* ScoreSpec: characters of a nickname
MaxScore == 12        \* ScoreSpec: scores submitted
MaxRows == 1          \* BoardSpec: rows in the table when a submission arrives
ListRows == 3         \* ListSpec: rows in the table
LIMIT == 2            \* a scaled LIMIT of get_scores (50 in the source)
FanoutSockets == 3    \* FanoutSpec: listeners registered when the run starts
SegBytes == 3         \* SegmentSpec: bytes one ffmpeg subprocess delivers
MAX_BROADCAST_DURATION == 12  \* a scaled MAX_BROADCAST_DURATION (3 hours in the
                              \* source), in minutes; above SILENCE_TIMEOUT as there

\* ------------------------------------------------------- program constants
None == 0                         \* Python None for handles and the url
BLANK_TITLE == 0                  \* current_title = ""
ERROR_TITLE == -1                 \* the "INVALID SPACE URL" title
SILENCE_TIMEOUT == 10             \* 10 * 60 s, in minutes
WATCHDOG_SLEEP == 1               \* asyncio.sleep(60), in minutes
MAX_PPS == 1000                   \* points per second
SCORE_FLOOR == 500                \* "sub.score > 500": only significant scores are checked
ONE_SECOND == 10                  \* "duration = 1"; the leaderboard's times are in tenths of a second
ADMIN_SECRET_KEY == "ADMIN_SECRET_KEY"
READ_SIZE == 2                    \* "stdout.read(4096)", scaled: the bytes of a full read

Langs == {"English", "French"}

VARIABLES
    \* AudioStreamProcessor fields
    is_running, current_url, current_title, audio_queue, ffmpeg_process,
    processing_task, watchdog_task, start_time, last_activity_time,
    \* ConnectionManager fields
    active_connections, history,
    \* len(clients), the credentials configured, and the index of the one in use
    clients, CURRENT_KEY_INDEX,
    \* the score submission of the game widget, from the click to the answer
    game,
    \* the rows of the table "scores" of xspace.db, in insertion order
    scores,
    \* time.time(), in minutes
    now,
    \* tasks of the event loop
    starts,      \* start_stream tasks, one per 'stream' request
    ingests,     \* run_ffmpeg tasks, each with the subprocess it spawned
    procs,       \* process_audio tasks
    dogs,        \* watchdog_loop tasks
    segs,        \* transcribe_and_distribute tasks
    sockets,     \* accepted websockets and their websocket_endpoint handler
    wire         \* the last message(s) handed to websockets

procVars == <<is_running, current_url, current_title, audio_queue, ffmpeg_process,
              processing_task, watchdog_task, start_time, last_activity_time>>
vars == <<is_running, current_url, current_title, audio_queue, ffmpeg_process,
          processing_task, watchdog_task, start_time, last_activity_time,
          active_connections, history, clients, CURRENT_KEY_INDEX, game, scores, now, starts, ingests,
          procs, dogs, segs, sockets, wire>>

Sockets == 1..NumSockets

\* ------------------------------------------------------------- helpers
\* wire when the last step handed nothing to a websocket
Quiet == [kind |-> "none", to |-> {}, body |-> <<>>]

Range(s) == {s[i] : i \in 1..Len(s)}

\* A join that keeps the socket's old entry.
Without_keep(conns, ws) == conns

\* [c for c in active_connections if c[0] != websocket]
Without(conns, ws) == SelectSeq(conns, LAMBDA c : c[1] # ws)

\* ConnectionManager.connect: the registry after the append
connect(conns, ws, lang) == Append(conns, <<ws, lang>>)

\* A get_stats whose total is the number of languages in use.
get_stats_languages(conns) ==
    [total |-> Cardinality({c[2] : c \in Range(conns)}),
     breakdown |-> [l \in {c[2] : c \in Range(conns)} |->
                       Cardinality({i \in 1..Len(conns) : conns[i][2] = l})]]

\* ConnectionManager.get_stats
get_stats(conns) ==
    [total |-> Len(conns),
     breakdown |-> [l \in {c[2] : c \in Range(conns)} |->
                       Cardinality({i \in 1..Len(conns) : conns[i][2] = l})]]

\* The sockets of a registry snapshot on which ws.send_json does not raise.
Reached(conns, socks) == {c[1] : c \in {d \in Range(conns) : socks[d[1]].open}}

\* ConnectionManager.broadcast_stats: one pass over the registry; a failing
\* send is swallowed.
broadcast_stats(conns, socks) ==
    [kind |-> "stats", to |-> Reached(conns, socks), body |-> get_stats(conns)]

\* ConnectionManager.broadcast_meta
broadcast_meta(conns, socks, title) ==
    [kind |-> "meta", to |-> Reached(conns, socks), body |-> title]

\* ---------------------------------------------------------- stop_stream
\* stop_stream works on a record w of everything it may touch; w.at is the
\* suspension point it stops at ("stop_done": it returned).
World ==
    [run |-> is_running, hist |-> history, ffp |-> ffmpeg_process, ing |-> ingests,
     ptask |-> processing_task, pa |-> procs, wtask |-> watchdog_task, wd |-> dogs,
     q |-> audio_queue, url |-> current_url, title |-> current_title,
     wire |-> Quiet, at |-> "stop_done"]

\* After the processing task was awaited: drop the handles, replace the queue,
\* clear title and source, broadcast the empty title.
stop_stream_finish(w) ==
    LET w1 == [w EXCEPT !.ptask = None]
        w2 == IF w1.wtask # None
              THEN [w1 EXCEPT !.wd[w1.wtask].cancel = (w1.wd[w1.wtask].pc # "done"),
                              !.wtask = None]
              ELSE w1
        w3 == [w2 EXCEPT !.q = [id |-> w2.q.id + 1, items |-> <<>>],
                         !.url = None, !.title = BLANK_TITLE,
                         !.wire = broadcast_meta(active_connections, sockets, BLANK_TITLE)]
    IN  [w3 EXCEPT !.at = IF active_connections = <<>> THEN "stop_done" ELSE "stop_meta"]

\* After the subprocess was waited for: forget it, cancel and await the
\* processing task.  Awaiting a task that is already done does not suspend.
stop_stream_cancel(w) ==
    LET w1 == [w EXCEPT !.ffp = None]
    IN  IF w1.ptask # None /\ w1.pa[w1.ptask].pc # "done"
        THEN [w1 EXCEPT !.pa[w1.ptask].cancel = TRUE, !.at = "stop_wait_task"]
        ELSE stop_stream_finish(w1)

\* Entry of stop_stream: flag, history, kill.  kill() on a subprocess that has
\* already exited raises and is swallowed, without suspending.
stop_stream(w) ==
    LET w1 == [w EXCEPT !.run = FALSE, !.hist = <<>>]
    IN  IF w1.ffp # None /\ w1.ing[w1.ffp].proc \in {"alive", "killed"}
        THEN [w1 EXCEPT !.ing[w1.ffp].proc = "killed", !.at = "stop_wait_ffmpeg"]
        ELSE stop_stream_cancel(w1)

\* Resume stop_stream at suspension point pc.
stop_stream_resume(w, pc) ==
    CASE pc = "stop_wait_ffmpeg" -> stop_stream_cancel(w)
      [] pc = "stop_wait_task" -> stop_stream_finish(w)
      [] pc = "stop_meta" -> [w EXCEPT !.at = "stop_done"]

StopPcs == {"stop_wait_ffmpeg", "stop_wait_task", "stop_meta"}

\* Write back what stop_stream touched, except the caller's own task list.
CommitShared(w) ==
    /\ is_running' = w.run
    /\ ffmpeg_process' = w.ffp
    /\ ingests' = w.ing
    /\ processing_task' = w.ptask
    /\ procs' = w.pa
    /\ watchdog_task' = w.wtask
    /\ audio_queue' = w.q
    /\ current_url' = w.url
    /\ current_title' = w.title
    /\ wire' = w.wire

\* --------------------------------------------------------- start_stream
\* start_stream after "await self.stop_stream()": clear_history, then wait for
\* get_stream_info.
StartAfterStop(i, w) ==
    /\ CommitShared(w)
    /\ dogs' = w.wd
    /\ IF w.at = "stop_done"
       THEN /\ history' = <<>>
            /\ starts' = [starts EXCEPT ![i].pc = "resolve", ![i].awaited = None]
       ELSE /\ history' = w.hist
            /\ starts' = [starts EXCEPT ![i].pc = w.at,
                       ![i].awaited = IF w.at = "stop_wait_task" THEN w.ptask ELSE None]
    /\ UNCHANGED <<start_time, last_activity_time, active_connections, now, segs, sockets, clients, CURRENT_KEY_INDEX, game, scores>>

\* First step of a start_stream task.
start_stream(i) ==
    /\ starts[i].pc = "created"
    /\ StartAfterStop(i, stop_stream(World))

\* A start_stream task suspended inside stop_stream goes on.
start_stream_stopping(i) ==
    /\ starts[i].pc \in StopPcs
    /\ starts[i].pc = "stop_wait_task" => procs[starts[i].awaited].pc = "done"
    /\ StartAfterStop(i, stop_stream_resume(World, starts[i].pc))

\* The three create_task calls at the end of start_stream.
LaunchTasks(i) ==
    /\ ingests' = Append(ingests, [pc |-> "created", proc |-> "none", read |-> 0, sent |-> 0, by |-> i])
    /\ procs' = Append(procs, [pc |-> "created", cancel |-> FALSE, buffer |-> <<>>, by |-> i])
    /\ dogs' = Append(dogs, [pc |-> "created", cancel |-> FALSE, wake |-> 0,
                             awaited |-> None, by |-> i])
    /\ processing_task' = Len(procs) + 1
    /\ watchdog_task' = Len(dogs) + 1
    /\ starts' = [starts EXCEPT ![i].pc = "done"]

\* get_stream_info returned: ok = a playable url was extracted.
start_stream_resolved(i, ok) ==
    /\ starts[i].pc = "resolve"
    /\ IF ~ok
       THEN /\ wire' = broadcast_meta(active_connections, sockets, ERROR_TITLE)
            /\ starts' = [starts EXCEPT ![i].pc = "done"]
            /\ UNCHANGED <<procVars, ingests, procs, dogs>>
       ELSE /\ is_running' = TRUE
            /\ current_url' = starts[i].url
            /\ current_title' = starts[i].url
            /\ start_time' = now
            /\ last_activity_time' = now
            /\ wire' = broadcast_meta(active_connections, sockets, starts[i].url)
            /\ UNCHANGED <<audio_queue, ffmpeg_process>>
            /\ IF active_connections = <<>>
               THEN LaunchTasks(i)
               ELSE /\ starts' = [starts EXCEPT ![i].pc = "on_air"]
                    /\ UNCHANGED <<ingests, procs, dogs, processing_task, watchdog_task>>
    /\ UNCHANGED <<active_connections, history, now, segs, sockets, clients, CURRENT_KEY_INDEX, game, scores>>

\* broadcast_meta(title) returned: launch ingest, processing and watchdog.
start_stream_launch(i) ==
    /\ starts[i].pc = "on_air"
    /\ LaunchTasks(i)
    /\ wire' = Quiet
    /\ UNCHANGED <<is_running, current_url, current_title, audio_queue, ffmpeg_process, start_time, last_activity_time, active_connections, history, now, segs, sockets, clients, CURRENT_KEY_INDEX, game, scores>>

\* ------------------------------------------------------------ run_ffmpeg
\* First step of the ingest task: create_subprocess_exec, store the handle,
\* enter the read loop.  (The subprocess is spawned and its handle stored in
\* one step.)
run_ffmpeg(i) ==
    /\ ingests[i].pc = "created"
    /\ ffmpeg_process' = i
    /\ ingests' = [ingests EXCEPT ![i].proc = "alive",
                                  ![i].pc = IF is_running THEN "reading" ELSE "done"]
    /\ wire' = Quiet
    /\ UNCHANGED <<is_running, current_url, current_title, audio_queue, processing_task, watchdog_task, start_time, last_activity_time, active_connections, history, now, starts, procs, dogs, segs, sockets, clients, CURRENT_KEY_INDEX, game, scores>>

\* The n bytes a read returns, each named by the subprocess it comes from and
\* its position in that subprocess's output.
Chunk(i, n) == [j \in 1..n |-> <<i, ingests[i].sent + j>>]

\* stdout.read(4096) returned n bytes: the chunk is put on self.audio_queue
\* (whichever queue that is now), or EOF ends the loop.
run_ffmpeg_chunk(i, n) ==
    /\ ingests[i].pc = "reading"
    /\ IF ingests[i].proc = "alive"
       THEN /\ audio_queue' = [audio_queue EXCEPT
                                 !.items = Append(@, [data |-> Chunk(i, n),
                                                      by |-> ingests[i].by])]
            /\ last_activity_time' = now
            /\ ingests' = [ingests EXCEPT ![i].read = @ + 1, ![i].sent = @ + n,
                                          ![i].pc = IF is_running THEN "reading" ELSE "done"]
       ELSE /\ ingests' = [ingests EXCEPT ![i].pc = "done"]
            /\ UNCHANGED <<audio_queue, last_activity_time>>
    /\ wire' = Quiet
    /\ UNCHANGED <<is_running, current_url, current_title, ffmpeg_process, processing_task, watchdog_task, start_time, active_connections, history, now, starts, procs, dogs, segs, sockets, clients, CURRENT_KEY_INDEX, game, scores>>

\* A full read.
run_ffmpeg_read(i) == run_ffmpeg_chunk(i, READ_SIZE)

\* The upstream media ends: the subprocess exits by itself.
ffmpeg_exit(i) ==
    /\ ingests[i].proc = "alive"
    /\ ingests[i].pc = "reading"
    /\ ingests' = [ingests EXCEPT ![i].proc = "exited"]
    /\ wire' = Quiet
    /\ UNCHANGED <<procVars, active_connections, history, now, starts, procs, dogs, segs, sockets, clients, CURRENT_KEY_INDEX, game, scores>>

\* --------------------------------------------------------- process_audio
\* A segment handed to asyncio.create_task(transcribe_and_distribute(...)).
NewSegment(k, wav_data) ==
    [pc |-> "transcribing", by |-> procs[k].by, id |-> Len(segs) + 1,
     wav_data |-> wav_data,
     needed |-> {}, tr |-> <<>>, translations |-> <<>>, snap |-> <<>>,
     disconnected |-> {}, logged |-> "none"]

\* A finished transcribe_and_distribute task keeps no local state.
SegDone(sg) ==
    [sg EXCEPT !.pc = "done", !.needed = {}, !.tr = <<>>, !.translations = <<>>,
               !.snap = <<>>, !.disconnected = {}, !.logged = "none"]

\* "while self.is_running" at the top of the loop.
ProcLoop == IF is_running THEN "waiting" ELSE "done"

process_audio(k) ==
    /\ procs[k].pc = "created"
    /\ ~procs[k].cancel
    /\ procs' = [procs EXCEPT ![k].pc = ProcLoop]
    /\ wire' = Quiet
    /\ UNCHANGED <<procVars, active_connections, history, now, starts, ingests, dogs, segs, sockets, clients, CURRENT_KEY_INDEX, game, scores>>

\* "if len(audio_buffer) >= BUFFER_SIZE"
emits(audio_buffer) == Len(audio_buffer) >= BUFFER_SIZE

\* audio_queue.get() returned a chunk: extend the buffer, emit a segment once
\* BUFFER_SIZE is reached.
process_audio_get(k) ==
    /\ procs[k].pc = "waiting"
    /\ ~procs[k].cancel
    /\ audio_queue.items # <<>>
    /\ LET audio_buffer == procs[k].buffer \o Head(audio_queue.items).data
       IN  /\ audio_queue' = [audio_queue EXCEPT !.items = Tail(@)]
           /\ IF emits(audio_buffer)
              THEN /\ segs' = Append(segs, NewSegment(k, audio_buffer))
                   /\ procs' = [procs EXCEPT ![k].buffer = <<>>, ![k].pc = ProcLoop]
              ELSE /\ segs' = segs
                   /\ procs' = [procs EXCEPT ![k].buffer = audio_buffer,
                                             ![k].pc = ProcLoop]
    /\ wire' = Quiet
    /\ UNCHANGED <<is_running, current_url, current_title, ffmpeg_process, processing_task, watchdog_task, start_time, last_activity_time, active_connections, history, now, starts, ingests, dogs, sockets, clients, CURRENT_KEY_INDEX, game, scores>>

\* wait_for(..., timeout=1.0) timed out and the loop condition is now false.
process_audio_timeout(k) ==
    /\ procs[k].pc = "waiting"
    /\ ~procs[k].cancel
    /\ audio_queue.items = <<>>
    /\ ~is_running
    /\ procs' = [procs EXCEPT ![k].pc = "done", ![k].cancel = FALSE, ![k].buffer = <<>>]
    /\ wire' = Quiet
    /\ UNCHANGED <<procVars, active_connections, history, now, starts, ingests, dogs, segs, sockets, clients, CURRENT_KEY_INDEX, game, scores>>

\* CancelledError reaches the task at its await.
process_audio_cancelled(k) ==
    /\ procs[k].pc # "done"
    /\ procs[k].cancel
    /\ procs' = [procs EXCEPT ![k].pc = "done", ![k].cancel = FALSE, ![k].buffer = <<>>]
    /\ wire' = Quiet
    /\ UNCHANGED <<procVars, active_connections, history, now, starts, ingests, dogs, segs, sockets, clients, CURRENT_KEY_INDEX, game, scores>>

\* --------------------------------------------------------- watchdog_loop
\* A finished task keeps no local state.
DogDone(d) == [d EXCEPT !.pc = "done", !.cancel = FALSE, !.wake = 0, !.awaited = None]

DogLoop(d) == IF is_running
              THEN [d EXCEPT !.pc = "sleep", !.wake = now + WATCHDOG_SLEEP]
              ELSE DogDone(d)

watchdog_loop(j) ==
    /\ dogs[j].pc = "created"
    /\ ~dogs[j].cancel
    /\ dogs' = [dogs EXCEPT ![j] = DogLoop(@)]
    /\ wire' = Quiet
    /\ UNCHANGED <<procVars, active_connections, history, now, starts, ingests, procs, segs, sockets, clients, CURRENT_KEY_INDEX, game, scores>>

\* The silence rule with "at least" in place of "more than".
WatchdogTrips_atLeast ==
    \/ now - start_time > MAX_BROADCAST_DURATION
    \/ now - last_activity_time >= SILENCE_TIMEOUT

\* The two rules checked after each sleep.
WatchdogTrips ==
    \/ now - start_time > MAX_BROADCAST_DURATION
    \/ now - last_activity_time > SILENCE_TIMEOUT

\* The watchdog inside stop_stream: where it is suspended, or done after the
\* "break" that follows stop_stream.
DogAfterStop(j, w) ==
    /\ CommitShared(w)
    /\ history' = w.hist
    /\ dogs' = IF w.at = "stop_done"
               THEN [w.wd EXCEPT ![j] = DogDone(@)]
               ELSE [w.wd EXCEPT ![j].pc = w.at,
                       ![j].awaited = IF w.at = "stop_wait_task" THEN w.ptask ELSE None]
    /\ UNCHANGED <<start_time, last_activity_time, active_connections, now, starts, segs,
                   sockets, clients, CURRENT_KEY_INDEX, game, scores>>

watchdog_wake(j) ==
    /\ dogs[j].pc = "sleep"
    /\ ~dogs[j].cancel
    /\ now >= dogs[j].wake
    /\ IF WatchdogTrips
       THEN DogAfterStop(j, stop_stream(World))
       ELSE /\ dogs' = [dogs EXCEPT ![j] = DogLoop(@)]
            /\ wire' = Quiet
            /\ UNCHANGED <<procVars, active_connections, history, now, starts, ingests, procs, segs, sockets, clients, CURRENT_KEY_INDEX, game, scores>>

\* A watchdog suspended inside stop_stream goes on.  A cancellation that
\* arrives there is swallowed by stop_stream's except clauses.
watchdog_stopping(j) ==
    /\ dogs[j].pc \in StopPcs
    /\ dogs[j].pc = "stop_wait_task" =>
           (procs[dogs[j].awaited].pc = "done" \/ dogs[j].cancel)
    /\ DogAfterStop(j, stop_stream_resume([World EXCEPT !.wd[j].cancel = FALSE],
                                          dogs[j].pc))

\* CancelledError reaches the watchdog in asyncio.sleep.
watchdog_cancelled(j) ==
    /\ dogs[j].pc \in {"created", "sleep"}
    /\ dogs[j].cancel
    /\ dogs' = [dogs EXCEPT ![j] = DogDone(@)]
    /\ wire' = Quiet
    /\ UNCHANGED <<procVars, active_connections, history, now, starts, ingests, procs, segs, sockets, clients, CURRENT_KEY_INDEX, game, scores>>

\* time.time() advances by d minutes.
Tick(d) ==
    /\ d > 0
    /\ now' = now + d
    /\ wire' = Quiet
    /\ UNCHANGED <<procVars, active_connections, history, starts, ingests, procs, dogs, segs, sockets, clients, CURRENT_KEY_INDEX, game, scores>>

\* ---------------------------------------------------- websocket_endpoint
NoText == <<>>

\* The text a listener of language lang gets for a record (broadcast_result
\* and the history replay use the same rule).
TextFor(original, translations, lang) ==
    IF lang = "English" THEN original
    ELSE IF lang \in DOMAIN translations THEN translations[lang]
    ELSE NoText

\* user_history_payload of the join handler.
HistoryPayload(hist, lang) ==
    LET texts == [n \in 1..Len(hist) |->
                     TextFor(hist[n].original, hist[n].translations, lang)]
    IN  SelectSeq(texts, LAMBDA x : x # NoText)

\* The except clauses of websocket_endpoint: manager.disconnect, then
\* broadcast_stats; the handler ends.
HandlerFails(ws) ==
    LET conns == Without(active_connections, ws)
    IN  /\ active_connections' = conns
        /\ wire' = broadcast_stats(conns, sockets)
        /\ sockets' = [sockets EXCEPT ![ws].pc = "gone", ![ws].lang = "English"]

\* The history part of a join: build the payload from manager.history as it
\* is now and send it when it is not empty.
JoinHistory(ws) ==
    LET payload == HistoryPayload(history, sockets[ws].lang)
    IN  IF history # <<>> /\ payload # <<>>
        THEN IF sockets[ws].open
             THEN /\ wire' = [kind |-> "history", to |-> {ws}, body |-> payload]
                  /\ sockets' = [sockets EXCEPT ![ws].pc = "recv", ![ws].lang = "English"]
                  /\ UNCHANGED active_connections
             ELSE HandlerFails(ws)
        ELSE /\ sockets' = [sockets EXCEPT ![ws].pc = "recv", ![ws].lang = "English"]
             /\ wire' = Quiet
             /\ UNCHANGED <<active_connections>>

\* action == "join": drop the socket's old entry, connect (append and
\* broadcast_stats).
join(ws, lang) ==
    /\ sockets[ws].pc = "recv"
    /\ sockets[ws].open
    /\ LET conns == connect(Without(active_connections, ws), ws, lang)
       IN  /\ active_connections' = conns
           /\ wire' = broadcast_stats(conns, sockets)
    /\ sockets' = [sockets EXCEPT ![ws].pc = "join_stats", ![ws].lang = lang]
    /\ UNCHANGED <<procVars, history, clients, CURRENT_KEY_INDEX, game, scores, now, starts, ingests, procs, dogs,
                   segs>>

\* connect returned: send the current title if there is one, else go on to
\* the history.
join_title(ws) ==
    /\ sockets[ws].pc = "join_stats"
    /\ IF current_title # BLANK_TITLE
       THEN IF sockets[ws].open
            THEN /\ wire' = [kind |-> "meta", to |-> {ws}, body |-> current_title]
                 /\ sockets' = [sockets EXCEPT ![ws].pc = "join_title"]
                 /\ UNCHANGED active_connections
            ELSE HandlerFails(ws)
       ELSE JoinHistory(ws)
    /\ UNCHANGED <<procVars, history, clients, CURRENT_KEY_INDEX, game, scores, now, starts, ingests, procs, dogs,
                   segs>>

\* The title was sent: replay the history.
join_history(ws) ==
    /\ sockets[ws].pc = "join_title"
    /\ JoinHistory(ws)
    /\ UNCHANGED <<procVars, history, clients, CURRENT_KEY_INDEX, game, scores, now, starts, ingests, procs, dogs,
                   segs>>

\* action == "stream": asyncio.create_task(processor.start_stream(url)).
stream(ws) ==
    /\ sockets[ws].pc = "recv"
    /\ sockets[ws].open
    /\ Len(starts) < MaxStarts
    /\ starts' = Append(starts, [pc |-> "created", url |-> Len(starts) + 1,
                                 awaited |-> None])
    /\ wire' = Quiet
    /\ UNCHANGED <<procVars, active_connections, history, clients, CURRENT_KEY_INDEX, game, scores, now, ingests, procs, dogs, segs, sockets>>

\* The client goes away.
close(ws) ==
    /\ sockets[ws].open
    /\ sockets' = [sockets EXCEPT ![ws].open = FALSE]
    /\ wire' = Quiet
    /\ UNCHANGED <<procVars, active_connections, history, clients, CURRENT_KEY_INDEX, game, scores, now, starts, ingests, procs, dogs, segs>>

\* receive_json raises WebSocketDisconnect.
disconnect(ws) ==
    /\ sockets[ws].pc = "recv"
    /\ ~sockets[ws].open
    /\ HandlerFails(ws)
    /\ UNCHANGED <<procVars, history, clients, CURRENT_KEY_INDEX, game, scores, now, starts, ingests, procs, dogs,
                   segs>>

\* --------------------------------------------- transcribe_and_distribute
Original(id) == <<id, "orig">>
Translated(id, lang) == <<id, lang>>

\* A fan that asks for every supported language, whoever is listening.
get_needed_languages_all(conns) == Langs

\* A fan that does not consult the registry and serves the default language.
get_needed_languages_default(conns) == {"English"}

\* ConnectionManager.get_needed_languages
get_needed_languages(conns) == {c[2] : c \in Range(conns)}

\* A fan that does not leave the pass-through language out.
target_langs_all(needed) == needed

\* target_langs = [l for l in needed_langs if l != "English"]
target_langs(needed) == {l \in needed : l # "English"}

\* ConnectionManager.add_history (the in-memory part)
add_history(hist, original, translations) ==
    Append(IF Len(hist) > MAX_HISTORY_ITEMS THEN Tail(hist) ELSE hist,
           [original |-> original, translations |-> translations])

\* The entries of a registry list for which the pass has a text to send (for
\* the others the loop body does nothing).
ToSend(sg, list) ==
    SelectSeq(list, LAMBDA c : TextFor(Original(sg.id), sg.translations, c[2]) # NoText)

\* A pass that gives up at the first send that raises: it prunes and emits
\* the stats without visiting the rest of the list.
broadcast_result_abort(t, sg, list) ==
    LET todo == ToSend(sg, list)
    IN  IF todo # <<>> /\ sockets[Head(todo)[1]].open
        THEN /\ segs' = [segs EXCEPT ![t] =
                   [sg EXCEPT !.pc = "sending", !.snap = Tail(todo)]]
             /\ wire' = [kind |-> "transcript", to |-> {Head(todo)[1]},
                         body |-> TextFor(Original(sg.id), sg.translations, Head(todo)[2])]
             /\ UNCHANGED active_connections
        ELSE LET failed == IF todo # <<>> THEN {Head(todo)[1]} ELSE {}
                 conns == SelectSeq(active_connections, LAMBDA c : c[1] \notin failed)
             IN  /\ segs' = [segs EXCEPT ![t] = SegDone(sg)]
                 /\ active_connections' = conns
                 /\ wire' = IF failed # {} THEN broadcast_stats(conns, sockets) ELSE Quiet

\* ConnectionManager.broadcast_result over what is left of the list the loop
\* iterates: run to the next send_json, or finish (prune, broadcast_stats).
\* sg.snap keeps the entries still to visit after the current one.
broadcast_result(t, sg, list) ==
    LET todo == ToSend(sg, list)
    IN  IF todo # <<>>
        THEN LET ws == Head(todo)[1]
                 ok == sockets[ws].open
             IN  /\ segs' = [segs EXCEPT ![t] =
                       [sg EXCEPT !.pc = "sending", !.snap = Tail(todo),
                                  !.disconnected = IF ok THEN @ ELSE @ \cup {ws}]]
                 /\ wire' = [kind |-> "transcript", to |-> IF ok THEN {ws} ELSE {},
                             body |-> TextFor(Original(sg.id), sg.translations,
                                              Head(todo)[2])]
                 /\ UNCHANGED active_connections
        ELSE LET conns == SelectSeq(active_connections,
                                    LAMBDA c : c[1] \notin sg.disconnected)
             IN  /\ segs' = [segs EXCEPT ![t] = SegDone(sg)]
                 /\ active_connections' = conns
                 /\ wire' = IF sg.disconnected # {}
                            THEN broadcast_stats(conns, sockets) ELSE Quiet

\* manager.add_history(text, translations_cache), then broadcast_result up to
\* its first send.
\* An add_history without the try around the write to session_log.jsonl: a
\* failing write raises.
add_history_raises(disk) == disk = "written"

\* Whether add_history returns to its caller, on the outcome of the append to
\* session_log.jsonl: a failing write is caught and logged.
add_history_returns(disk) == TRUE

\* manager.add_history, then manager.broadcast_result.  The record is appended
\* in memory before the write to the log is tried ("written" or "failed"); an
\* exception out of add_history would end the task in its "except Exception".
Distribute(t, sg) ==
    \E disk \in {"written", "failed"} :
        /\ history' = add_history(history, Original(sg.id), sg.translations)
        /\ IF add_history_returns(disk)
           THEN broadcast_result(t, [sg EXCEPT !.logged = disk], active_connections)
           ELSE /\ segs' = [segs EXCEPT ![t] = SegDone(sg)]
                /\ wire' = Quiet
                /\ UNCHANGED active_connections

\* A fan that takes any transcript the call returns, however short.
non_trivial_any(outcome) == outcome # "error"

\* "if text and len(text) > 5", on the outcome of the transcription call
non_trivial(outcome) == outcome = "text"

\* The transcription call returned: outcome "text" is a transcript longer than
\* 5 characters, "short" an empty or shorter one, "error" an exception.
transcribe_and_distribute(t, outcome) ==
    /\ segs[t].pc = "transcribing"
    /\ clients = 0 => outcome = "error"
    /\ IF non_trivial(outcome)
       THEN LET needed_langs == get_needed_languages(active_connections)
                targets == target_langs(needed_langs)
            IN  /\ last_activity_time' = now
                /\ IF targets = {}
                   THEN Distribute(t, segs[t])
                   ELSE /\ segs' = [segs EXCEPT ![t].pc = "gather",
                               ![t].needed = needed_langs,
                               ![t].tr = [l \in targets |->
                                   [pc |-> "created", attempt |-> 0, used |-> <<>>,
                                    result |-> NoText]]]
                        /\ wire' = Quiet
                        /\ UNCHANGED <<active_connections, history>>
       ELSE /\ segs' = [segs EXCEPT ![t] = SegDone(@)]
            /\ wire' = Quiet
            /\ UNCHANGED <<last_activity_time, active_connections, history>>
    /\ UNCHANGED <<is_running, current_url, current_title, audio_queue, ffmpeg_process,
                   processing_task, watchdog_task, start_time, clients, CURRENT_KEY_INDEX, game, scores, now,
                   starts, ingests, procs, dogs, sockets>>

\* -------------------------------------------------------- translate_text
\* A translate_text that goes on retrying for as long as it is rate-limited.
Attempt_unbounded(id, task, index) ==
    [task EXCEPT !.pc = "inflight", !.attempt = @ + 1, !.used = Append(@, index)]

\* A translate_text that returns nothing once its attempts are used up.
Attempt_none(id, task, index) ==
    IF clients = 0 \/ task.attempt >= clients + 1
    THEN [task EXCEPT !.pc = "done", !.attempt = 0, !.used = <<>>, !.result = NoText]
    ELSE [task EXCEPT !.pc = "inflight", !.attempt = @ + 1, !.used = Append(@, index)]

\* One pass of "for attempt in range(len(clients) + 1)": send the request with
\* the client at CURRENT_KEY_INDEX (index), or fall back to the text once the
\* range is used up.  An empty client list raises IndexError, which also falls
\* back.  task.used lists the clients the attempts so far were sent with.
Attempt(id, task, index) ==
    IF clients = 0 \/ task.attempt >= clients + 1
    THEN [task EXCEPT !.pc = "done", !.attempt = 0, !.used = <<>>, !.result = Original(id)]
    ELSE [task EXCEPT !.pc = "inflight", !.attempt = @ + 1, !.used = Append(@, index)]

\* First step of a translate_text task created by asyncio.gather.
translate_text(t, lang) ==
    /\ segs[t].pc = "gather"
    /\ lang \in DOMAIN segs[t].tr
    /\ segs[t].tr[lang].pc = "created"
    /\ segs' = [segs EXCEPT ![t].tr[lang] =
                  IF lang = "English"
                  THEN [pc |-> "done", attempt |-> 0, used |-> <<>>,
                        result |-> Original(segs[t].id)]
                  ELSE Attempt(segs[t].id, @, CURRENT_KEY_INDEX)]
    /\ wire' = Quiet
    /\ UNCHANGED <<procVars, active_connections, history, clients, CURRENT_KEY_INDEX, game, scores, now, starts, ingests, procs, dogs, sockets>>

\* rotate_key without its sleep
rotate_key(index) == IF clients > 1 THEN (index + 1) % clients ELSE index

\* The translation service answered: "ok", "rate_limit" (RateLimitError) or
\* "error" (any other exception).
translate_reply(t, lang, outcome) ==
    /\ segs[t].pc = "gather"
    /\ lang \in DOMAIN segs[t].tr
    /\ segs[t].tr[lang].pc = "inflight"
    /\ CASE outcome = "ok" ->
              /\ segs' = [segs EXCEPT ![t].tr[lang] =
                            [pc |-> "done", attempt |-> 0, used |-> <<>>,
                             result |-> Translated(segs[t].id, lang)]]
              /\ UNCHANGED CURRENT_KEY_INDEX
         [] outcome = "error" ->
              /\ segs' = [segs EXCEPT ![t].tr[lang] =
                            [pc |-> "done", attempt |-> 0, used |-> <<>>,
                             result |-> Original(segs[t].id)]]
              /\ UNCHANGED CURRENT_KEY_INDEX
         [] outcome = "rate_limit" ->
              /\ CURRENT_KEY_INDEX' = rotate_key(CURRENT_KEY_INDEX)
              /\ segs' = [segs EXCEPT ![t].tr[lang] =
                            IF clients > 1
                            THEN Attempt(segs[t].id, @, rotate_key(CURRENT_KEY_INDEX))
                            ELSE [@ EXCEPT !.pc = "sleep"]]
    /\ wire' = Quiet
    /\ UNCHANGED <<procVars, active_connections, history, clients, game, scores, now, starts, ingests, procs,
                   dogs, sockets>>

\* rotate_key's asyncio.sleep(5) is over (single credential).
translate_wake(t, lang) ==
    /\ segs[t].pc = "gather"
    /\ lang \in DOMAIN segs[t].tr
    /\ segs[t].tr[lang].pc = "sleep"
    /\ segs' = [segs EXCEPT ![t].tr[lang] = Attempt(segs[t].id, @, CURRENT_KEY_INDEX)]
    /\ wire' = Quiet
    /\ UNCHANGED <<procVars, active_connections, history, clients, CURRENT_KEY_INDEX, game, scores, now, starts, ingests, procs, dogs, sockets>>

\* A fan that does not wait for its requests: the segment goes out with the
\* answers that happen to be there.
gather_done_nowait(t) ==
    /\ segs[t].pc = "gather"
    /\ Distribute(t, [segs[t] EXCEPT
                        !.translations = [l \in DOMAIN segs[t].tr |-> segs[t].tr[l].result],
                        !.tr = <<>>, !.needed = {}])
    /\ UNCHANGED <<procVars, clients, CURRENT_KEY_INDEX, game, scores, now, starts, ingests, procs, dogs, sockets>>

\* asyncio.gather returned: fill translations_cache, add_history, broadcast.
gather_done(t) ==
    /\ segs[t].pc = "gather"
    /\ \A l \in DOMAIN segs[t].tr : segs[t].tr[l].pc = "done"
    /\ Distribute(t, [segs[t] EXCEPT
                        !.translations = [l \in DOMAIN segs[t].tr |-> segs[t].tr[l].result],
                        !.tr = <<>>, !.needed = {}])
    /\ UNCHANGED <<procVars, clients, CURRENT_KEY_INDEX, game, scores, now, starts, ingests, procs, dogs, sockets>>

\* ws.send_json of the broadcast pass returned (or raised): go on with the
\* next entry of the list being iterated.
broadcast_next(t) ==
    /\ segs[t].pc = "sending"
    /\ broadcast_result(t, segs[t], segs[t].snap)
    /\ UNCHANGED <<procVars, history, clients, CURRENT_KEY_INDEX, game, scores, now, starts, ingests, procs, dogs,
                   sockets>>

\* ------------------------------------------- submitScore / submit_score
\* Strings are sequences of character codes.
CLIENT_SECRET ==
    <<88, 83, 80, 65, 67, 69, 95, 67, 76, 73, 69, 78, 84, 95, 83, 69, 67, 82, 69, 84,
      95, 57, 56>>

\* Nicknames the player may type (the input is upper-cased): "A", "Z", "7"
\* and their combinations.
NameChars == {65, 90, 55}
Names == UNION {[1..n -> NameChars] : n \in 1..MaxNameLen}

\* Numbers wider than the checker's integers are written in limbs of 16 bits.
Limb == 2^16

\* A Python int that is not negative: its limbs, lowest first, no leading zero
\* limb; 0 is the empty sequence.
RECURSIVE Norm(_)
Norm(d) == IF d # <<>> /\ d[Len(d)] = 0 THEN Norm(SubSeq(d, 1, Len(d) - 1)) ELSE d

\* d * m + carry
RECURSIVE BigMulAdd(_, _, _)
BigMulAdd(d, m, carry) ==
    IF d = <<>>
    THEN IF carry = 0 THEN <<>> ELSE <<carry % Limb>> \o BigMulAdd(<<>>, m, carry \div Limb)
    ELSE LET v == Head(d) * m + carry
         IN  <<v % Limb>> \o BigMulAdd(Tail(d), m, v \div Limb)

\* f"{sub.score}" and `${score}` for a positive integer score
RECURSIVE Str(_)
Str(n) == IF n < 10 THEN <<48 + n>> ELSE Append(Str(n \div 10), 48 + (n % 10))

\* Quotient and remainder of d by 10000.
RECURSIVE Div10000(_)
Div10000(d) ==
    IF d = <<>>
    THEN [q |-> <<>>, r |-> 0]
    ELSE LET up == Div10000(Tail(d))
             cur == Head(d) + Limb * up.r
         IN  [q |-> <<cur \div 10000>> \o up.q, r |-> cur % 10000]

\* The four decimal digits of n < 10000
Digits4(n) ==
    <<48 + (n \div 1000), 48 + ((n \div 100) % 10), 48 + ((n \div 10) % 10), 48 + (n % 10)>>

\* str(n) for a Python int n >= 0, four digits at a time
RECURSIVE BigStr(_)
BigStr(d) ==
    LET x == Div10000(d)
        q == Norm(x.q)
    IN  IF q = <<>> THEN Str(x.r) ELSE BigStr(q) \o Digits4(x.r)

\* msg = name + score + CLIENT_SECRET, the same on both sides
Message(name, score) == name \o Str(score) \o CLIENT_SECRET

\* a - b - borrow for a >= b + borrow, limb by limb
RECURSIVE BigSub(_, _, _)
BigSub(a, b, borrow) ==
    IF a = <<>>
    THEN <<>>
    ELSE LET v == Head(a) - (IF b = <<>> THEN 0 ELSE Head(b)) - borrow
         IN  <<v % Limb>> \o BigSub(Tail(a), IF b = <<>> THEN <<>> ELSE Tail(b),
                                    IF v < 0 THEN 1 ELSE 0)

\* A server whose hash is cut to 32 bits after every pass, as an unsigned
\* number.
server_step_wrapped(h, char) ==
    Norm(SubSeq(BigMulAdd(h, 31, char) \o <<0, 0>>, 1, 2))

\* One pass of the server's loop: ((expected_hash << 5) - expected_hash) +
\* ord(char).  Python ints are unbounded, so the shift loses nothing and
\* "expected_hash & expected_hash" is expected_hash.
server_step(h, char) == Norm(BigMulAdd(BigSub(BigMulAdd(h, 32, 0), h, 0), 1, char))

\* One pass of the client's loop on the 32-bit pattern h = [hi, lo] of hash:
\* "hash << 5" yields an int32, the subtraction and the addition are exact,
\* and "hash & hash" takes the result back to an int32.
client_step(h, char) ==
    LET s == h.lo * 32
        shl == [lo |-> s % Limb, hi |-> (h.hi * 32 + (s \div Limb)) % Limb]
        t == shl.lo - h.lo + char
    IN  [lo |-> t % Limb, hi |-> (shl.hi - h.hi + (t \div Limb)) % Limb]

\* hash.toString() of the int32 with pattern h: a minus sign (45) and the
\* magnitude when the top bit is set.
toString(h) ==
    IF h.hi < 2^15
    THEN BigStr(Norm(<<h.lo, h.hi>>))
    ELSE <<45>> \o BigStr(Norm(<<(Limb - h.lo) % Limb,
                                 Limb - h.hi - (IF h.lo = 0 THEN 0 ELSE 1)>>))

\* No score has been submitted.  msg and i are the loop's string and the
\* number of characters it has been through; hash is the widget's variable,
\* expected_hash the server's; name, score, start_time and signature are the
\* fields of the ScoreSubmission, status the server's answer, leaderboard the
\* rows the last GET /scores answered with.
NoGame == [pc |-> "playing", name |-> <<>>, score |-> 0, start_time |-> 0, msg |-> <<>>,
           i |-> 0, hash |-> [hi |-> 0, lo |-> 0], signature |-> <<>>,
           expected_hash |-> <<>>, status |-> "none", leaderboard |-> <<>>]

\* time.time() in tenths of a second (now is in minutes)
Clock == now * 60 * ONE_SECOND

GameStep(g) ==
    /\ game' = g
    /\ UNCHANGED <<procVars, active_connections, history, clients, CURRENT_KEY_INDEX, scores, now,
                   starts, ingests, procs, dogs, segs, sockets, wire>>

\* The widget's submitScore up to its loop: nothing is sent without a
\* nickname or with a score of 0.  (The two loops are run one pass per step,
\* so that the value after every pass is a state.)
submitScore(nickname, score, gameStartTime) ==
    /\ game.pc = "playing"
    /\ nickname # <<>>
    /\ score # 0
    /\ GameStep([game EXCEPT !.pc = "signing", !.name = nickname, !.score = score,
                             !.start_time = gameStartTime,
                             !.msg = Message(nickname, score), !.i = 0,
                             !.hash = [hi |-> 0, lo |-> 0]])

\* One pass of "for (let i = 0; i < msg.length; i++)".
submitScore_loop ==
    /\ game.pc = "signing"
    /\ game.i < Len(game.msg)
    /\ GameStep([game EXCEPT !.i = @ + 1, !.hash = client_step(@, game.msg[game.i + 1])])

\* The loop is over: the payload is built and posted.
submitScore_fetch ==
    /\ game.pc = "signing"
    /\ game.i = Len(game.msg)
    /\ GameStep([game EXCEPT !.pc = "posted", !.signature = toString(game.hash),
                             !.msg = <<>>, !.i = 0, !.hash = [hi |-> 0, lo |-> 0]])

\* POST /scores: the server builds msg from the submission.
submit_score ==
    /\ game.pc = "posted"
    /\ GameStep([game EXCEPT !.pc = "checking", !.msg = Message(game.name, game.score),
                             !.i = 0, !.expected_hash = <<>>])

\* One pass of "for char in msg".
submit_score_loop ==
    /\ game.pc = "checking"
    /\ game.i < Len(game.msg)
    /\ GameStep([game EXCEPT !.i = @ + 1,
                             !.expected_hash = server_step(@, game.msg[game.i + 1])])

\* A POST /scores from any HTTP client: the four fields of ScoreSubmission.
post(name, score, started, signature) ==
    /\ game.pc = "playing"
    /\ GameStep([NoGame EXCEPT !.pc = "posted", !.name = name, !.score = score,
                               !.start_time = started, !.signature = signature,
                               !.leaderboard = game.leaderboard])

\* duration = time.time() - sub.start_time; if duration <= 0: duration = 1
Duration(started) ==
    IF Clock - started <= 0 THEN ONE_SECOND ELSE Clock - started

\* A speed check without the floor on the score.
impossible_speed_any(score, duration) == score * ONE_SECOND > MAX_PPS * duration

\* pps > MAX_PPS and sub.score > 500, for pps = sub.score / duration: with the
\* duration in tenths of a second, pps > MAX_PPS is
\* score * ONE_SECOND > MAX_PPS * duration.
impossible_speed(score, duration) ==
    score * ONE_SECOND > MAX_PPS * duration /\ score > SCORE_FLOOR

\* A handler that checks the speed before the signature.
Validate_speed_first(g) ==
    IF impossible_speed(g.score, Duration(g.start_time)) THEN "impossible_speed"
    ELSE IF BigStr(g.expected_hash) # g.signature THEN "signature_mismatch"
    ELSE "ok"

\* The two checks of submit_score, in the order of the code: the reason of the
\* rejection, or "ok".
Validate(g) ==
    IF BigStr(g.expected_hash) # g.signature THEN "signature_mismatch"
    ELSE IF impossible_speed(g.score, Duration(g.start_time)) THEN "impossible_speed"
    ELSE "ok"

\* The row INSERT INTO scores VALUES (?, ?, ?, ?) adds for submission g.
Row(g) == [name |-> g.name, score |-> g.score, timestamp |-> Clock,
           signature |-> g.signature]

\* The loop is over: the signature check, the speed check, the insert and the
\* answer.  (The handler is a plain function: nothing else of the server runs
\* between its checks and its insert except other requests to the table.)
submit_score_verify ==
    /\ game.pc = "checking"
    /\ game.i = Len(game.msg)
    /\ game' = [game EXCEPT !.pc = "answered", !.status = Validate(game)]
    /\ scores' = IF Validate(game) = "ok" THEN Append(scores, Row(game)) ELSE scores
    /\ UNCHANGED <<procVars, active_connections, history, clients, CURRENT_KEY_INDEX, now,
                   starts, ingests, procs, dogs, segs, sockets, wire>>

\* The answer has reached the client: the request is over.
response ==
    /\ game.pc = "answered"
    /\ GameStep([NoGame EXCEPT !.leaderboard = game.leaderboard])

\* An endpoint that lets any key through.
Authorized_any(key) == TRUE

\* "if key != ADMIN_SECRET_KEY: raise HTTPException(status_code=403)"
Authorized(key) == key = ADMIN_SECRET_KEY

\* DELETE /scores?key=...: 403 without the admin key, else every row goes.
clear_scores(key) ==
    /\ scores' = IF Authorized(key) THEN <<>> ELSE scores
    /\ UNCHANGED <<procVars, active_connections, history, clients, CURRENT_KEY_INDEX, game,
                   now, starts, ingests, procs, dogs, segs, sockets, wire>>

\* A listing in the order the rows were inserted in.
Ordered_unsorted(rows) == {rows}

\* ORDER BY score DESC: the rows in an order of non-increasing score; SQL
\* leaves the order of rows of equal score open.
Ordered(rows) ==
    {[n \in 1..Len(rows) |-> rows[p[n]]] :
        p \in {q \in [1..Len(rows) -> 1..Len(rows)] :
                  /\ \A m, n \in 1..Len(rows) : m # n => q[m] # q[n]
                  /\ \A m, n \in 1..Len(rows) :
                         m < n => rows[q[m]].score >= rows[q[n]].score}}

\* GET /scores: SELECT name, score, timestamp ... ORDER BY score DESC LIMIT 50;
\* a failing read is answered with the empty list.
get_scores ==
    \/ \E rows \in Ordered(scores) :
          GameStep([game EXCEPT !.leaderboard =
              [n \in 1..(IF Len(rows) < LIMIT THEN Len(rows) ELSE LIMIT) |->
                  [name |-> rows[n].name, score |-> rows[n].score,
                   timestamp |-> rows[n].timestamp]]])
    \/ GameStep([game EXCEPT !.leaderboard = <<>>])

\* The state after "processor = AudioStreamProcessor()" and
\* "manager = ConnectionManager()", with n websockets accepted and their
\* handlers waiting in receive_json.
Idle(n) ==
    /\ is_running = FALSE
    /\ current_url = None
    /\ current_title = BLANK_TITLE
    /\ audio_queue = [id |-> 0, items |-> <<>>]
    /\ ffmpeg_process = None
    /\ processing_task = None
    /\ watchdog_task = None
    /\ start_time = 0
    /\ last_activity_time = 0
    /\ active_connections = <<>>
    /\ history = <<>>
    /\ clients = NumKeys
    /\ CURRENT_KEY_INDEX = 0
    /\ game = NoGame
    /\ scores = <<>>
    /\ now = 0
    /\ starts = <<>>
    /\ ingests = <<>>
    /\ procs = <<>>
    /\ dogs = <<>>
    /\ segs = <<>>
    /\ sockets = [s \in 1..n |-> [open |-> TRUE, pc |-> "recv", lang |-> "English"]]
    /\ wire = Quiet

\* The full reads that fill a segment.
SegmentReads == (BUFFER_SIZE + READ_SIZE - 1) \div READ_SIZE

\* A session on air: start_stream(1) has run to its end on an idle server, the
\* ingest task reads, the processing task waits on the queue, the watchdog
\* sleeps.
OnAir(n) ==
    /\ is_running = TRUE
    /\ current_url = 1
    /\ current_title = 1
    /\ audio_queue = [id |-> 1, items |-> <<>>]
    /\ ffmpeg_process = 1
    /\ processing_task = 1
    /\ watchdog_task = 1
    /\ start_time = 0
    /\ last_activity_time = 0
    /\ active_connections = <<>>
    /\ history = <<>>
    /\ clients = NumKeys
    /\ CURRENT_KEY_INDEX = 0
    /\ game = NoGame
    /\ scores = <<>>
    /\ now = 0
    /\ starts = <<[pc |-> "done", url |-> 1, awaited |-> None]>>
    /\ ingests = <<[pc |-> "reading", proc |-> "alive", read |-> 0, sent |-> 0, by |-> 1]>>
    /\ procs = <<[pc |-> "waiting", cancel |-> FALSE, buffer |-> <<>>, by |-> 1]>>
    /\ dogs = <<[pc |-> "sleep", cancel |-> FALSE, wake |-> WATCHDOG_SLEEP,
                 awaited |-> None, by |-> 1]>>
    /\ segs = <<>>
    /\ sockets = [s \in 1..n |-> [open |-> TRUE, pc |-> "recv", lang |-> "English"]]
    /\ wire = Quiet

\* ------------------------------------------------------- specifications
\* Spec: the stream supervisor.  Any socket may ask for a broadcast and join
\* as an English listener; runs are shorter than one watchdog period, so the
\* watchdogs only start, sleep and get cancelled.
Init == Idle(NumSockets)

Next ==
    \/ \E ws \in DOMAIN sockets : stream(ws)
    \/ \E ws \in DOMAIN sockets : join(ws, "English")
    \/ \E ws \in DOMAIN sockets : join_title(ws) \/ join_history(ws)
    \/ \E i \in 1..Len(starts) : start_stream(i) \/ start_stream_stopping(i)
                                    \/ start_stream_launch(i)
    \/ \E i \in 1..Len(starts) : \E ok \in BOOLEAN : start_stream_resolved(i, ok)
    \/ \E i \in 1..Len(ingests) : run_ffmpeg(i) \/ ffmpeg_exit(i)
    \/ \E i \in 1..Len(ingests) : ingests[i].read < MaxChunks /\ run_ffmpeg_read(i)
    \/ \E k \in 1..Len(procs) : process_audio(k) \/ process_audio_get(k)
                                   \/ process_audio_timeout(k) \/ process_audio_cancelled(k)
    \/ \E j \in 1..Len(dogs) : watchdog_loop(j) \/ watchdog_cancelled(j)
    \/ \E t \in 1..Len(segs) : \E o \in {"text", "short", "error"} :
           transcribe_and_distribute(t, o)
    \/ \E t \in 1..Len(segs) : broadcast_next(t)

Spec == Init /\ [][Next]_vars

\* The listeners' side of a session on air: joins in any language, re-joins,
\* clients going away, segments transcribed, translated and broadcast.
Listeners(maxChunks) ==
    \/ \E ws \in DOMAIN sockets : close(ws) \/ disconnect(ws)
    \/ \E ws \in DOMAIN sockets : \E lang \in Langs : join(ws, lang)
    \/ \E ws \in DOMAIN sockets : join_title(ws) \/ join_history(ws)
    \/ \E i \in 1..Len(ingests) : ingests[i].read < maxChunks /\ run_ffmpeg_read(i)
    \/ \E k \in 1..Len(procs) : process_audio_get(k)
    \/ \E t \in 1..Len(segs) : \E o \in {"text", "short", "error"} :
           transcribe_and_distribute(t, o)
    \/ \E t \in 1..Len(segs) : \E l \in Langs : translate_text(t, l)
    \/ \E t \in 1..Len(segs) : \E l \in Langs : \E o \in {"ok", "rate_limit", "error"} :
           translate_reply(t, l, o)
    \/ \E t \in 1..Len(segs) : gather_done(t) \/ broadcast_next(t)

FanInit == OnAir(FanSockets)
FanNext == Listeners(FanChunks)
FanSpec == FanInit /\ [][FanNext]_vars

RegistryInit == OnAir(RegSockets)
RegistryNext == Listeners(RegChunks)
RegistrySpec == RegistryInit /\ [][RegistryNext]_vars

\* The registry alone: listeners of a session on air join in any language,
\* re-join and go away, while no audio arrives.
StatsInit == OnAir(StatSockets)

StatsNext ==
    \/ \E ws \in DOMAIN sockets : close(ws) \/ disconnect(ws)
    \/ \E ws \in DOMAIN sockets : \E lang \in Langs : join(ws, lang)
    \/ \E ws \in DOMAIN sockets : join_title(ws) \/ join_history(ws)

StatsSpec == StatsInit /\ [][StatsNext]_vars

\* A watchdog the event loop will run now: newly created, cancelled in its
\* sleep, or at the end of its asyncio.sleep(60).
Due(d) == d.pc = "created" \/ (d.pc = "sleep" /\ (d.cancel \/ d.wake <= now))

\* A minute of wall time goes by.  The event loop runs every task that is
\* ready before it sleeps, so time only passes when the tasks left are waiting
\* for the outside world (get_stream_info, the subprocess, a sleep).
TimePasses ==
    /\ now < MaxNow
    /\ \A j \in 1..Len(dogs) : ~Due(dogs[j])
    /\ \A i \in 1..Len(starts) : starts[i].pc # "created"
    /\ \A i \in 1..Len(ingests) :
           /\ ingests[i].pc # "created"
           /\ ingests[i].pc = "reading" => ingests[i].proc = "alive"
    /\ \A k \in 1..Len(procs) :
           /\ procs[k].pc # "created"
           /\ procs[k].pc = "done" \/ ~procs[k].cancel
           /\ procs[k].pc = "waiting" => (audio_queue.items = <<>> /\ is_running)
    /\ Tick(WATCHDOG_SLEEP)

\* The watchdog over silent sessions: 'stream' requests arrive in the first
\* minute, nobody listens, the subprocesses deliver no audio, time passes.
WatchdogInit == Idle(NumSockets)

WatchdogNext ==
    \/ \E ws \in DOMAIN sockets : now = 0 /\ stream(ws)
    \/ \E i \in 1..Len(starts) : start_stream(i) \/ start_stream_stopping(i)
    \/ \E i \in 1..Len(starts) : \E ok \in BOOLEAN : start_stream_resolved(i, ok)
    \/ \E i \in 1..Len(ingests) : run_ffmpeg(i) \/ ffmpeg_exit(i)
    \/ \E i \in 1..Len(ingests) : ingests[i].proc # "alive" /\ run_ffmpeg_read(i)
    \/ \E k \in 1..Len(procs) : process_audio(k) \/ process_audio_timeout(k)
                                   \/ process_audio_cancelled(k)
    \/ \E j \in 1..Len(dogs) : watchdog_loop(j) \/ watchdog_wake(j)
                                  \/ watchdog_stopping(j) \/ watchdog_cancelled(j)
    \/ TimePasses

WatchdogSpec == WatchdogInit /\ [][WatchdogNext]_vars

\* The segmenter: 'stream' requests on an idle server, subprocesses whose
\* reads return one byte or more, the processing tasks cutting segments.  The
\* segments are not transcribed in these runs.
SegmentInit == Idle(NumSockets)

SegmentNext ==
    \/ \E ws \in DOMAIN sockets : stream(ws)
    \/ \E i \in 1..Len(starts) : start_stream(i) \/ start_stream_stopping(i)
                                    \/ start_stream_launch(i)
    \/ \E i \in 1..Len(starts) : \E ok \in BOOLEAN : start_stream_resolved(i, ok)
    \/ \E i \in 1..Len(ingests) : run_ffmpeg(i)
    \/ \E i \in 1..Len(ingests) : \E n \in 1..READ_SIZE :
           ingests[i].sent + n <= SegBytes /\ run_ffmpeg_chunk(i, n)
    \/ \E k \in 1..Len(procs) : process_audio(k) \/ process_audio_get(k)
                                   \/ process_audio_timeout(k) \/ process_audio_cancelled(k)
    \/ \E j \in 1..Len(dogs) : watchdog_loop(j) \/ watchdog_cancelled(j)

SegmentSpec == SegmentInit /\ [][SegmentNext]_vars

\* The watchdog over a session with audio: one session on air with nobody
\* listening, reads of one byte or more arriving at any minute, the subprocess
\* ending at any minute, segments transcribed with any latency, time passing.
ActivityInit == OnAir(0)

ActivityNext ==
    \/ \E i \in 1..Len(ingests) : \E n \in 1..READ_SIZE :
           /\ ingests[i].proc = "alive"
           /\ ingests[i].sent + n <= SegBytes
           /\ run_ffmpeg_chunk(i, n)
    \/ \E i \in 1..Len(ingests) : ffmpeg_exit(i)
    \/ \E i \in 1..Len(ingests) : ingests[i].proc # "alive" /\ run_ffmpeg_read(i)
    \/ \E k \in 1..Len(procs) : process_audio_get(k) \/ process_audio_timeout(k)
                                   \/ process_audio_cancelled(k)
    \/ \E t \in 1..Len(segs) : \E o \in {"text", "short", "error"} :
           transcribe_and_distribute(t, o)
    \/ \E j \in 1..Len(dogs) : watchdog_wake(j) \/ watchdog_stopping(j)
    \/ TimePasses

ActivitySpec == ActivityInit /\ [][ActivityNext]_vars

\* The broadcast passes of a session on air whose listeners have joined
\* already, in any languages: segments are transcribed, translated and sent
\* while clients go away and their handlers notice it.
PassInit ==
    /\ is_running = TRUE
    /\ current_url = 1
    /\ current_title = 1
    /\ audio_queue = [id |-> 1, items |-> <<>>]
    /\ ffmpeg_process = 1
    /\ processing_task = 1
    /\ watchdog_task = 1
    /\ start_time = 0
    /\ last_activity_time = 0
    /\ active_connections \in {[ws \in 1..PassSockets |-> <<ws, f[ws]>>] :
                                  f \in [1..PassSockets -> Langs]}
    /\ history = <<>>
    /\ clients = NumKeys
    /\ CURRENT_KEY_INDEX = 0
    /\ game = NoGame
    /\ scores = <<>>
    /\ now = 0
    /\ starts = <<[pc |-> "done", url |-> 1, awaited |-> None]>>
    /\ ingests = <<[pc |-> "reading", proc |-> "alive", read |-> 0, sent |-> 0, by |-> 1]>>
    /\ procs = <<[pc |-> "waiting", cancel |-> FALSE, buffer |-> <<>>, by |-> 1]>>
    /\ dogs = <<[pc |-> "sleep", cancel |-> FALSE, wake |-> WATCHDOG_SLEEP,
                 awaited |-> None, by |-> 1]>>
    /\ segs = <<>>
    /\ sockets = [s \in 1..PassSockets |-> [open |-> TRUE, pc |-> "recv", lang |-> "English"]]
    /\ wire = Quiet

PassNext ==
    \/ \E ws \in DOMAIN sockets : close(ws) \/ disconnect(ws)
    \/ \E i \in 1..Len(ingests) : ingests[i].read < PassChunks /\ run_ffmpeg_read(i)
    \/ \E k \in 1..Len(procs) : process_audio_get(k)
    \/ \E t \in 1..Len(segs) : \E o \in {"text", "short", "error"} :
           transcribe_and_distribute(t, o)
    \/ \E t \in 1..Len(segs) : \E l \in Langs : translate_text(t, l)
    \/ \E t \in 1..Len(segs) : \E l \in Langs : \E o \in {"ok", "rate_limit", "error"} :
           translate_reply(t, l, o)
    \/ \E t \in 1..Len(segs) : gather_done(t) \/ broadcast_next(t)

PassSpec == PassInit /\ [][PassNext]_vars

\* The translation fan of one segment: a session on air whose listeners have
\* joined already, in any of three languages, and stay; the subprocess
\* delivers the audio of one segment.
Tongues == Langs \cup {"German"}

FanoutInit ==
    /\ is_running = TRUE
    /\ current_url = 1
    /\ current_title = 1
    /\ audio_queue = [id |-> 1, items |-> <<>>]
    /\ ffmpeg_process = 1
    /\ processing_task = 1
    /\ watchdog_task = 1
    /\ start_time = 0
    /\ last_activity_time = 0
    /\ active_connections \in {[ws \in 1..n |-> <<ws, f[ws]>>] :
                                  f \in [1..FanoutSockets -> Tongues], n \in 1..FanoutSockets}
    /\ history = <<>>
    /\ clients = NumKeys
    /\ CURRENT_KEY_INDEX = 0
    /\ game = NoGame
    /\ scores = <<>>
    /\ now = 0
    /\ starts = <<[pc |-> "done", url |-> 1, awaited |-> None]>>
    /\ ingests = <<[pc |-> "reading", proc |-> "alive", read |-> 0, sent |-> 0, by |-> 1]>>
    /\ procs = <<[pc |-> "waiting", cancel |-> FALSE, buffer |-> <<>>, by |-> 1]>>
    /\ dogs = <<[pc |-> "sleep", cancel |-> FALSE, wake |-> WATCHDOG_SLEEP,
                 awaited |-> None, by |-> 1]>>
    /\ segs = <<>>
    /\ sockets = [s \in 1..FanoutSockets |-> [open |-> TRUE, pc |-> "recv", lang |-> "English"]]
    /\ wire = Quiet

FanoutNext ==
    \/ \E i \in 1..Len(ingests) : ingests[i].read < SegmentReads /\ run_ffmpeg_read(i)
    \/ \E k \in 1..Len(procs) : process_audio_get(k)
    \/ \E t \in 1..Len(segs) : \E o \in {"text", "short", "error"} :
           transcribe_and_distribute(t, o)
    \/ \E t \in 1..Len(segs) : \E l \in Tongues : translate_text(t, l)
    \/ \E t \in 1..Len(segs) : \E l \in Tongues : \E o \in {"ok", "rate_limit", "error"} :
           translate_reply(t, l, o)
    \/ \E t \in 1..Len(segs) : gather_done(t) \/ broadcast_next(t)

FanoutSpec == FanoutInit /\ [][FanoutNext]_vars

\* The history on its own: any sequence of manager.add_history(text,
\* translations) and manager.clear_history() calls on a new ConnectionManager.
manager_add_history(text, D) ==
    /\ history' = add_history(history, Original(text), [l \in D |-> Translated(text, l)])
    /\ wire' = Quiet
    /\ UNCHANGED <<procVars, active_connections, clients, CURRENT_KEY_INDEX, game, scores, now, starts,
                   ingests, procs, dogs, segs, sockets>>

\* ConnectionManager.clear_history
clear_history ==
    /\ history # <<>>
    /\ history' = <<>>
    /\ wire' = Quiet
    /\ UNCHANGED <<procVars, active_connections, clients, CURRENT_KEY_INDEX, game, scores, now, starts,
                   ingests, procs, dogs, segs, sockets>>

HistoryInit == Idle(0)

HistoryNext ==
    \/ \E text \in 1..HistTexts : \E D \in SUBSET (Langs \ {"English"}) :
           manager_add_history(text, D)
    \/ clear_history

HistorySpec == HistoryInit /\ [][HistoryNext]_vars

\* The leaderboard: the widget signs and posts a score, the server checks the
\* signature.
ScoreInit == Idle(0)

ScoreNext ==
    \/ \E nickname \in Names : \E score \in 1..MaxScore :
           \E played \in {ONE_SECOND, 60 * ONE_SECOND} :
               submitScore(nickname, score, Clock - played)
    \/ submitScore_loop
    \/ submitScore_fetch
    \/ submit_score
    \/ submit_score_loop
    \/ submit_score_verify

ScoreSpec == ScoreInit /\ [][ScoreNext]_vars

\* The leaderboard's endpoints under requests from any HTTP client.  Names of
\* two characters ("AA", "AZ", "ZA", "ZZ"), scores on both sides of the floor
\* and of MAX_PPS points in a second.
BoardNames == [1..2 -> {65, 90}]
Scores == {50, 500, 501, 1000, 1001, 100000}
BoardInputs == BoardNames \X Scores

\* time.time() - sub.start_time of a submission: a start in the future, now,
\* a tenth of a second, a second and a minute ago.
Durations == {-ONE_SECOND, 0, 1, ONE_SECOND, 60 * ONE_SECOND}

\* The rolling hash h := 31 * h + code(ch) over the characters of msg, as an
\* unbounded integer.
RECURSIVE RollingHash(_)
RollingHash(msg) ==
    IF msg = <<>>
    THEN <<>>
    ELSE BigMulAdd(RollingHash(SubSeq(msg, 1, Len(msg) - 1)), 31, msg[Len(msg)])

\* The decimal string of the rolling hash of name + score + secret.
Signature == [sub \in BoardInputs |-> BigStr(RollingHash(Message(sub[1], sub[2])))]

\* Strings a and b have the same length and differ in exactly one character.
OneChar(a, b) ==
    /\ Len(a) = Len(b)
    /\ Cardinality({n \in 1..Len(a) : a[n] # b[n]}) = 1

\* Submission q is submission p with one character of the name or one
\* character of the score changed.
OneCharApart(p, q) ==
    \/ p[2] = q[2] /\ OneChar(p[1], q[1])
    \/ p[1] = q[1] /\ OneChar(Str(p[2]), Str(q[2]))

\* The signatures a client sends with submission sub: the one of sub, one
\* that was made for a submission a character apart, or "0".
Signatures(sub) ==
    {Signature[q] : q \in {r \in BoardInputs : r = sub \/ OneCharApart(r, sub)}}
        \cup {<<48>>}

BoardInit == Idle(0)

BoardNext ==
    \/ \E sub \in BoardInputs : \E d \in Durations : \E sig \in Signatures(sub) :
           Len(scores) < MaxRows /\ post(sub[1], sub[2], Clock - d, sig)
    \/ submit_score
    \/ submit_score_loop
    \/ submit_score_verify
    \/ response
    \/ \E key \in {ADMIN_SECRET_KEY, "guess"} : clear_scores(key)

BoardSpec == BoardInit /\ [][BoardNext]_vars

\* The listing on its own: GET /scores and DELETE /scores on any table of up
\* to ListRows accepted rows.
ListInputs == {sub \in BoardInputs : sub[1][1] = sub[1][2] /\ sub[2] \in {50, 500, 1000}}
ListTables ==
    UNION {[1..n -> {Row([name |-> sub[1], score |-> sub[2], signature |-> Signature[sub]]) :
                        sub \in ListInputs}] : n \in 0..ListRows}

ListInit ==
    /\ is_running = FALSE
    /\ current_url = None
    /\ current_title = BLANK_TITLE
    /\ audio_queue = [id |-> 0, items |-> <<>>]
    /\ ffmpeg_process = None
    /\ processing_task = None
    /\ watchdog_task = None
    /\ start_time = 0
    /\ last_activity_time = 0
    /\ active_connections = <<>>
    /\ history = <<>>
    /\ clients = NumKeys
    /\ CURRENT_KEY_INDEX = 0
    /\ game = NoGame
    /\ now = 0
    /\ scores \in ListTables
    /\ starts = <<>>
    /\ ingests = <<>>
    /\ procs = <<>>
    /\ dogs = <<>>
    /\ segs = <<>>
    /\ sockets = <<>>
    /\ wire = Quiet

ListNext ==
    \/ get_scores
    \/ \E key \in {ADMIN_SECRET_KEY, "guess"} : clear_scores(key)

ListSpec == ListInit /\ [][ListNext]_vars

\* translate_text on its own: one fan of calls translate_text(text, l), for any
\* text, any languages l (English included), any number of configured credentials from
\* none to NumKeys and any position of CURRENT_KEY_INDEX.
TranslateInit ==
    /\ is_running = TRUE
    /\ current_url = 1
    /\ current_title = 1
    /\ audio_queue = [id |-> 1, items |-> <<>>]
    /\ ffmpeg_process = 1
    /\ processing_task = 1
    /\ watchdog_task = 1
    /\ start_time = 0
    /\ last_activity_time = 0
    /\ active_connections = <<>>
    /\ history = <<>>
    /\ clients \in 0..NumKeys
    /\ CURRENT_KEY_INDEX \in 0..(IF clients = 0 THEN 0 ELSE clients - 1)
    /\ game = NoGame
    /\ scores = <<>>
    /\ now = 0
    /\ starts = <<[pc |-> "done", url |-> 1, awaited |-> None]>>
    /\ ingests = <<[pc |-> "reading", proc |-> "alive", read |-> SegmentReads,
                   sent |-> SegmentReads * READ_SIZE, by |-> 1]>>
    /\ procs = <<[pc |-> "waiting", cancel |-> FALSE, buffer |-> <<>>, by |-> 1]>>
    /\ dogs = <<[pc |-> "sleep", cancel |-> FALSE, wake |-> WATCHDOG_SLEEP,
                 awaited |-> None, by |-> 1]>>
    /\ segs \in {<<[pc |-> "gather", by |-> 1, id |-> id,
                    wav_data |-> [j \in 1..(SegmentReads * READ_SIZE) |-> <<1, j>>], needed |-> D,
                    tr |-> [l \in D |-> [pc |-> "created", attempt |-> 0, used |-> <<>>,
                                         result |-> NoText]],
                    translations |-> <<>>, snap |-> <<>>, disconnected |-> {},
                    logged |-> "none"]>> :
                     id \in 1..FanChunks, D \in (SUBSET Langs) \ {{}}}
    /\ sockets = [s \in 1..NumSockets |-> [open |-> TRUE, pc |-> "recv", lang |-> "English"]]
    /\ wire = Quiet

TranslateNext ==
    \/ \E l \in Langs : translate_text(1, l)
    \/ \E l \in Langs : \E o \in {"ok", "rate_limit", "error"} : translate_reply(1, l, o)
    \/ \E l \in Langs : translate_wake(1, l)
    \/ gather_done(1)

\* The event loop runs a created task, rotate_key's sleep ends, and every
\* request is answered (the client library turns a missing answer into an
\* exception after its timeout).
TranslateSpec ==
    /\ TranslateInit
    /\ [][TranslateNext]_vars
    /\ \A l \in Langs :
           /\ WF_vars(translate_text(1, l))
           /\ WF_vars(\E o \in {"ok", "rate_limit", "error"} : translate_reply(1, l, o))
           /\ WF_vars(translate_wake(1, l))

\* ============================================================ properties
LiveProcesses == {i \in 1..Len(ingests) : ingests[i].proc = "alive"}
ActiveProcessing == {k \in 1..Len(procs) : procs[k].pc # "done"}
ActiveWatchdogs == {j \in 1..Len(dogs) : dogs[j].pc # "done"}
ActiveIngests == {i \in 1..Len(ingests) : ingests[i].pc # "done"}

\* Every start_stream call issued so far has returned.
AllStartsReturned == starts # <<>> /\ \A i \in 1..Len(starts) : starts[i].pc = "done"

\* C1: at most one session runs at any instant: never more than one live
\* ingest subprocess, one processing task and one watchdog task.
C1_SingleSession ==
    /\ Cardinality(LiveProcesses) <= 1
    /\ Cardinality(ActiveProcessing) <= 1
    /\ Cardinality(ActiveWatchdogs) <= 1

\* C2: last write wins: once all start_stream calls have returned, a running
\* session (the most recent request having launched its tasks) has the url and
\* title of the most recently issued request and no ingest, processing or
\* watchdog task of an earlier request is still active.
C2_LastWriteWins ==
    (AllStartsReturned /\ is_running /\ \E k \in 1..Len(procs) : procs[k].by = Len(starts)) =>
        /\ current_url = starts[Len(starts)].url
        /\ current_title = starts[Len(starts)].url
        /\ \A i \in ActiveIngests \cup LiveProcesses : ingests[i].by = Len(starts)
        /\ \A k \in ActiveProcessing : procs[k].by = Len(starts)
        /\ \A j \in ActiveWatchdogs : dogs[j].by = Len(starts)

\* C3: once stop_stream has returned (every start_stream call has returned
\* and nothing runs), no task of the stopped session appends to history,
\* broadcasts a transcript or updates last_activity_time.
C3_NoStaleWrites ==
    [][(AllStartsReturned /\ ~is_running) =>
          /\ history' = history
          /\ last_activity_time' = last_activity_time
          /\ wire'.kind # "transcript"]_vars

\* C4: immediately after a start_stream call completes, the in-memory
\* transcript history is empty.
C4_HistoryEmptyAfterStart ==
    [][\A i \in 1..Len(starts) :
          (starts[i].pc # "done" /\ starts'[i].pc = "done") => history' = <<>>]_vars

\* C5: after stop_stream has returned (and no session was started since), no
\* ingest subprocess is alive, the processing and watchdog tasks are cancelled,
\* the queue is empty and title and source are cleared.
C5_StopIsComplete ==
    (AllStartsReturned /\ ~is_running) =>
        /\ LiveProcesses = {}
        /\ \A k \in ActiveProcessing : procs[k].cancel
        /\ \A j \in ActiveWatchdogs : dogs[j].cancel
        /\ audio_queue.items = <<>>
        /\ current_url = None
        /\ current_title = BLANK_TITLE

\* C7: the history replay of a join holds, in append order, exactly the
\* records resolvable for the listener's language, and while a session runs
\* none of them comes from a segment of an earlier session.
C7_JoinReplay ==
    [][\A ws \in DOMAIN sockets :
          (wire'.kind = "history" /\ wire'.to = {ws}) =>
              /\ wire'.body = HistoryPayload(history, sockets[ws].lang)
              /\ is_running =>
                     \A n \in 1..Len(wire'.body) : segs[wire'.body[n][1]].by = current_url]_vars

\* A step in which a transcript of segment t goes out on the wire.
TranscriptSent(t) == wire'.kind = "transcript" /\ segs'[t] # segs[t]

\* C6: broadcast routing: whatever a broadcast pass sends to a listener is the
\* text of the record for the language that listener is registered with when
\* it is sent (the original for English, else the translation for it).
C6_BroadcastRouting ==
    [][\A t \in 1..Len(segs) : TranscriptSent(t) =>
          \A ws \in wire'.to :
              \E c \in Range(active_connections) :
                  /\ c[1] = ws
                  /\ wire'.body = TextFor(Original(segs'[t].id), segs'[t].translations, c[2])]_vars

\* A step in which translate_text sends a request for language l of segment t
\* to the translation service (a first attempt or a retry).
RequestSent(t, l) ==
    /\ l \in DOMAIN segs'[t].tr
    /\ segs'[t].tr[l].pc = "inflight"
    /\ l \in DOMAIN segs[t].tr
    /\ segs'[t].tr[l].attempt > segs[t].tr[l].attempt

\* The step in which transcribe_and_distribute dispatches the fan.
FanDispatched(t) == segs[t].pc = "transcribing" /\ segs'[t].pc = "gather"

\* C8: no wasted translation: the fan of a segment is made of the languages of
\* the registry at the moment it is dispatched, English left out; it stays the
\* same until gather returns, and every request sent (retries included) is for
\* one of its languages.
C8_NoWastedTranslation ==
    [][\A t \in 1..Len(segs) :
          /\ FanDispatched(t) =>
                DOMAIN segs'[t].tr =
                    {active_connections[n][2] : n \in 1..Len(active_connections)} \ {"English"}
          /\ (segs[t].pc = "gather" /\ segs'[t].pc = "gather") =>
                DOMAIN segs'[t].tr = DOMAIN segs[t].tr
          /\ \A l \in Langs : RequestSent(t, l) => l # "English"]_vars

\* A French request is being retried after a rate-limit signal.
C8_Witness ==
    \E t \in 1..Len(segs) :
        /\ segs[t].pc = "gather"
        /\ "French" \in DOMAIN segs[t].tr
        /\ segs[t].tr["French"].pc = "inflight"
        /\ segs[t].tr["French"].attempt = 2

\* C9: whenever a translation request is sent (first attempt or retry), some
\* listener registered at that moment has the request's language.
C9_ListenerAtRequest ==
    [][\A t \in 1..Len(segs) : \A l \in Langs :
          RequestSent(t, l) => \E c \in Range(active_connections) : c[2] = l]_vars

\* The entries of the registry that belong to connection ws.
EntriesOf(ws) == {n \in 1..Len(active_connections) : active_connections[n][1] = ws}

\* C10: the registry holds at most one entry per connection, and while a join
\* handler runs the entry of its connection, if still there, holds the
\* language of that join.
C10_OneEntryPerConnection ==
    \A ws \in DOMAIN sockets :
        /\ Cardinality(EntriesOf(ws)) <= 1
        /\ sockets[ws].pc \in {"join_stats", "join_title"} =>
               \A n \in EntriesOf(ws) : active_connections[n][2] = sockets[ws].lang

\* Connection 1 was registered for French when a fan was dispatched and has
\* re-joined since: its only entry is the English one (no other connection
\* ever joined).
C10_Witness ==
    /\ \E t \in 1..Len(segs) : segs[t].pc = "gather" /\ segs[t].needed = {"French"}
    /\ active_connections = <<<<1, "English">>>>
    /\ \A ws \in DOMAIN sockets : ws # 1 => sockets[ws].pc = "recv" /\ sockets[ws].open

\* C11: watchdog liveness: a session that has had no activity for longer than
\* SILENCE_TIMEOUT stops running within one watchdog polling interval, so a
\* running session is never silent for more than the ceiling plus one interval.
C11_WatchdogLiveness ==
    is_running => now - last_activity_time <= SILENCE_TIMEOUT + WATCHDOG_SLEEP

\* The step in which the request for language l of segment t gives up after a
\* rate-limit signal on its last attempt and returns the original text.
RateLimitFallback(t, l) ==
    /\ l \in DOMAIN segs[t].tr
    /\ segs[t].tr[l].attempt = clients + 1
    /\ segs'[t].tr[l].pc = "done"
    /\ CURRENT_KEY_INDEX' # CURRENT_KEY_INDEX \/ segs[t].tr[l].pc = "sleep"

\* C12: a retry after a rate-limit signal is sent with the credential that
\* follows, in round-robin order, the one the previous attempt used, and a
\* request gives up only after every configured credential was tried for it.
C12_RoundRobinRetry ==
    [][\A t \in 1..Len(segs) : \A l \in Langs :
          /\ (RequestSent(t, l) /\ segs[t].tr[l].used # <<>>) =>
                 segs'[t].tr[l].used[Len(segs'[t].tr[l].used)]
                     = (segs[t].tr[l].used[Len(segs[t].tr[l].used)] + 1) % clients
          /\ RateLimitFallback(t, l) =>
                 Range(segs[t].tr[l].used) = 0..(clients - 1)]_vars

\* The step in which translate_text for language l of segment t returns.
Returned(t, l) ==
    /\ l \in DOMAIN segs[t].tr
    /\ l \in DOMAIN segs'[t].tr
    /\ segs[t].tr[l].pc # "done"
    /\ segs'[t].tr[l].pc = "done"

\* C13: translate_text never makes more than len(clients) + 1 attempts; what it
\* returns is the translation or the original text, and it is the original
\* text when the attempts are used up, on any other error, for English and for
\* an empty credential list; and every call returns.
C13_TranslateTerminates ==
    /\ [](\A t \in 1..Len(segs) : \A l \in DOMAIN segs[t].tr :
             segs[t].tr[l].attempt <= clients + 1)
    /\ [][\A t \in 1..Len(segs) : \A l \in Langs :
             /\ Returned(t, l) =>
                   /\ segs'[t].tr[l].result \in {Original(segs[t].id), Translated(segs[t].id, l)}
                   /\ (segs[t].tr[l].pc = "created" \/ RateLimitFallback(t, l)
                         \/ translate_reply(t, l, "error")) =>
                          segs'[t].tr[l].result = Original(segs[t].id)
             /\ (clients = 0 /\ translate_text(t, l)) => Returned(t, l)]_vars
    /\ <>(\A t \in 1..Len(segs) : \A l \in DOMAIN segs[t].tr : segs[t].tr[l].pc = "done")

\* The last attempt of a request, number len(clients) + 1, is in flight.
C13_Witness ==
    \E t \in 1..Len(segs) : \E l \in DOMAIN segs[t].tr :
        /\ clients > 0
        /\ segs[t].tr[l].pc = "inflight"
        /\ segs[t].tr[l].attempt = clients + 1

\* Segment t has a translation request that has not returned.
Pending(t) == \E l \in DOMAIN segs[t].tr : segs[t].tr[l].pc # "done"

\* This step sends (or tries to send) a text of segment t to a listener.
Sent(t) == wire'.kind = "transcript" /\ wire'.body[1] = segs[t].id

\* This step appends the record of segment t to the history.
Appended(t) ==
    /\ history' # history
    /\ history' # <<>>
    /\ history'[Len(history')].original = Original(segs[t].id)

\* C14: the history append and every send of a segment happen when no
\* translation request of the segment is pending; the record holds the result
\* of every request; and a broadcast pass begins in the step that appends the
\* record, so nothing is sent before the append.
C14_AtomicBroadcast ==
    [][\A t \in 1..Len(segs) :
          /\ (Sent(t) \/ Appended(t)) => ~Pending(t)
          /\ Appended(t) =>
                 history'[Len(history')].translations
                     = [l \in DOMAIN segs[t].tr |-> segs[t].tr[l].result]
          /\ Sent(t) => (segs[t].pc = "sending" \/ Appended(t))
          /\ (segs[t].pc # "sending" /\ segs'[t].pc = "sending") => Appended(t)]_vars

\* An English listener has just been sent the original text of a segment that
\* was translated into French for another listener still to be served.
C14_Witness ==
    \E t \in 1..Len(segs) :
        /\ segs[t].pc = "sending"
        /\ "French" \in DOMAIN segs[t].translations
        /\ segs[t].snap # <<>>
        /\ wire.kind = "transcript"
        /\ wire.to # {}
        /\ wire.body = Original(segs[t].id)

\* This step is one of the broadcast pass of segment t: its first (the one
\* that appends the record) or a later one.
PassStep(t) == segs'[t] # segs[t] /\ (segs[t].pc = "sending" \/ Appended(t))

\* The entries the pass of segment t has still to visit: at its start those
\* of the registry, later those left of the list it iterates.
Rest(t) ==
    IF segs[t].pc = "sending"
    THEN ToSend(segs[t], segs[t].snap)
    ELSE ToSend([id |-> segs[t].id,
                 translations |-> [l \in DOMAIN segs[t].tr |-> segs[t].tr[l].result]],
                active_connections)

\* C15: a pass under way visits the next connection it has a text for whether
\* or not earlier sends failed, and records a failure; it leaves the registry
\* alone until it has attempted every connection; then it removes exactly the
\* failed connections and, if there are any, emits the stats to the listeners
\* that remain.
C15_FailureIsolation ==
    [][\A t \in 1..Len(segs) : PassStep(t) =>
          IF Rest(t) # <<>>
          THEN /\ segs'[t].pc = "sending"
               /\ wire'.kind = "transcript"
               /\ wire'.to = {ws \in {Head(Rest(t))[1]} : sockets[ws].open}
               /\ segs'[t].snap = Tail(Rest(t))
               /\ segs'[t].disconnected =
                      segs[t].disconnected \cup {ws \in {Head(Rest(t))[1]} : ~sockets[ws].open}
               /\ active_connections' = active_connections
          ELSE /\ segs'[t].pc = "done"
               /\ active_connections' =
                      SelectSeq(active_connections, LAMBDA c : c[1] \notin segs[t].disconnected)
               /\ wire' = IF segs[t].disconnected # {}
                          THEN broadcast_stats(active_connections', sockets')
                          ELSE Quiet]_vars

\* A listener is served although the send to an earlier listener of the same
\* pass failed; the failed connection is still in the registry.
C15_Witness ==
    \E t \in 1..Len(segs) :
        /\ segs[t].pc = "sending"
        /\ segs[t].disconnected # {}
        /\ wire.kind = "transcript"
        /\ wire.to # {}
        /\ \A ws \in segs[t].disconnected : \E c \in Range(active_connections) : c[1] = ws

\* C16: the step in which a start_stream request learns that its URL could not
\* be resolved broadcasts the error title to every listener, launches no task
\* and leaves the supervisor idle: is_running false, current_url and
\* current_title cleared.
C16_FailedStartStaysIdle ==
    [][\A i \in 1..Len(starts) : start_stream_resolved(i, FALSE) =>
          /\ wire' = broadcast_meta(active_connections, sockets, ERROR_TITLE)
          /\ ingests' = ingests /\ procs' = procs /\ dogs' = dogs
          /\ ~is_running'
          /\ current_url' = None
          /\ current_title' = BLANK_TITLE]_vars

\* This step is the one in which the stop_stream called by start_stream task i
\* returns.
StopReturns(i) == starts[i].pc \in {"created"} \cup StopPcs /\ starts'[i].pc = "resolve"

\* C17: whatever the state stop_stream was called in (idle, just stopped,
\* another stop_stream under way), when it returns is_running is false, the
\* history is empty, title and source are cleared, the subprocess and task
\* handles are None and the queue is empty.
C17_StopIdempotent ==
    [][\A i \in 1..Len(starts) : StopReturns(i) =>
          /\ ~is_running'
          /\ history' = <<>>
          /\ current_title' = BLANK_TITLE
          /\ current_url' = None
          /\ ffmpeg_process' = None
          /\ processing_task' = None
          /\ watchdog_task' = None
          /\ audio_queue'.items = <<>>]_vars

\* The languages other than English that have a listener in the registry.
Registered == {l \in Langs \ {"English"} : \E c \in Range(active_connections) : c[2] = l}

\* C18: when the transcription of a segment completes with a text, the fan
\* asks for exactly the non-English languages that have a listener in the
\* registry at that moment, whatever earlier segments asked for; the set is
\* kept while the requests run, and the record of the segment has an entry for
\* each of its languages.
C18_LiveNeededLanguages ==
    [][\A t \in 1..Len(segs) :
          /\ (transcribe_and_distribute(t, "text") /\ Registered # {}) =>
                 /\ segs'[t].pc = "gather"
                 /\ DOMAIN segs'[t].tr = Registered
                 /\ target_langs(segs'[t].needed) = Registered
          /\ (segs[t].pc = "gather" /\ segs'[t].pc = "gather") =>
                 segs'[t].needed = segs[t].needed
          /\ (Appended(t) /\ segs[t].pc = "gather") =>
                 DOMAIN history'[Len(history')].translations = target_langs(segs[t].needed)]_vars

\* The second segment is being translated into French for a listener who
\* joined after the first segment had gone out without any translation.
C18_Witness ==
    \E t \in 2..Len(segs) :
        /\ segs[t].pc = "gather"
        /\ "French" \in DOMAIN segs[t].tr
        /\ \E n \in 1..Len(history) :
               /\ history[n].original = Original(segs[t - 1].id)
               /\ history[n].translations = <<>>

\* C19: the in-memory history never holds more than MAX_HISTORY_ITEMS records.
C19_HistoryBounded == Len(history) <= MAX_HISTORY_ITEMS

\* The server's hash fits a 32-bit signed integer.
Fits32(d) == Len(d) <= 2 /\ (Len(d) = 2 => d[2] < 2^15)

\* C20: for a score signed by the widget, the server's hash is a 32-bit signed
\* integer after every pass of its loop, and the signature check passes.
C20_SignatureAgrees ==
    /\ game.pc \in {"checking", "answered"} => Fits32(game.expected_hash)
    /\ game.pc = "answered" => game.status # "signature_mismatch"

\* C24: a session is never running for longer than MAX_BROADCAST_DURATION
\* plus one polling interval of the watchdog: the first poll after the ceiling
\* stops it.
C24_HardCeiling ==
    is_running => now - start_time <= MAX_BROADCAST_DURATION + WATCHDOG_SLEEP

\* The submission the server is handling, as a pair of BoardInputs.
Submitted == <<game.name, game.score>>

RECURSIVE Concat(_)
Concat(ss) == IF ss = <<>> THEN <<>> ELSE Head(ss) \o Concat(Tail(ss))

Emitted == Concat([t \in 1..Len(segs) |-> segs[t].wav_data])

\* The bytes the live segmenters hold, and the bytes waiting on the queue.
Buffered == Concat([k \in 1..Len(procs) |-> procs[k].buffer])
Queued == Concat([n \in 1..Len(audio_queue.items) |-> audio_queue.items[n].data])

\* C25: while a session runs, the emitted segments carry the bytes taken from
\* the queue in arrival order, each byte once: a byte of a subprocess is never
\* emitted after a later byte of that subprocess, and no byte is at once in two
\* places (two segments, a segment and a buffer, a buffer and the queue).
C25_SegmentsInOrder ==
    is_running =>
        /\ \A m, n \in 1..Len(Emitted) :
              (m < n /\ Emitted[m][1] = Emitted[n][1]) => Emitted[m][2] < Emitted[n][2]
        /\ LET all == Emitted \o Buffered \o Queued
           IN  \A m, n \in 1..Len(all) : m # n => all[m] # all[n]

\* C26: a segment whose transcription raises, or yields an empty or too short
\* text, is dropped: the step that ends its task issues no translation request,
\* leaves history and last_activity_time alone, sends nothing, starts no other
\* task for the segment and leaves the session as it is; the task never runs
\* again.
C26_SegmentDropped ==
    [][\A t \in 1..Len(segs) :
          /\ (\E o \in {"short", "error"} : transcribe_and_distribute(t, o)) =>
                /\ segs'[t].pc = "done"
                /\ segs'[t].tr = <<>>
                /\ Len(segs') = Len(segs)
                /\ history' = history
                /\ last_activity_time' = last_activity_time
                /\ wire' = Quiet
                /\ is_running' = is_running
                /\ procs' = procs /\ ingests' = ingests /\ dogs' = dogs
          /\ segs[t].pc = "done" => segs'[t] = segs[t]]_vars

\* A segment was dropped while a French listener was registered: its task is
\* over and history is empty, and the session has gone on to the next
\* segment, which is being translated.
C26_Witness ==
    /\ Len(segs) = 2
    /\ segs[1].pc = "done"
    /\ history = <<>>
    /\ segs[2].pc = "gather"
    /\ is_running
    /\ \E c \in Range(active_connections) : c[2] = "French"

\* The step in which the record of segment t is appended to history and its
\* broadcast pass starts.
Distributed(t) ==
    /\ segs[t].pc \in {"transcribing", "gather"}
    /\ history' # history

\* C27: the translations mapping that goes into history and into the broadcast
\* of a segment has a text for every language other than English of the
\* needed-language set the fan was dispatched with, whatever the translation
\* service answered; and the needed set is the registry's at the dispatch.
C27_EveryLanguageServed ==
    [][\A t \in 1..Len(segs) :
          /\ FanDispatched(t) => segs'[t].needed = get_needed_languages(active_connections)
          /\ Distributed(t) =>
                LET needed == IF segs[t].pc = "gather" THEN segs[t].needed
                              ELSE get_needed_languages(active_connections)
                    record == history'[Len(history')]
                IN  /\ DOMAIN record.translations = needed \ {"English"}
                    /\ \A l \in DOMAIN record.translations :
                          record.translations[l] \in {Original(segs[t].id),
                                                      Translated(segs[t].id, l)}
                    /\ segs'[t].pc = "sending" => segs'[t].translations = record.translations]_vars

\* A record went into history with a French translation and, for German, the
\* original text that translate_text fell back to.
C27_Witness ==
    /\ Len(history) = 1
    /\ DOMAIN history[1].translations = {"French", "German"}
    /\ history[1].translations["French"] = Translated(1, "French")
    /\ history[1].translations["German"] = Original(1)

\* A step that follows a rate-limit signal for language l of segment t: the
\* RateLimitError is caught, or the sleep of rotate_key ends.
AfterRateLimit(t, l) == translate_reply(t, l, "rate_limit") \/ translate_wake(t, l)

\* C28: the fan of a segment has one translate_text task per distinct language
\* other than English of the registry, however many listeners share a
\* language; a task sends one request, and another one only after a rate-limit
\* signal; it returns only after a request.  With a single listener, in
\* French, and the request answered, the step that ends the fan appends one
\* record to history and hands the French text to that listener.
C28_OneRequestPerLanguage ==
    [][\A t \in 1..Len(segs) :
          /\ FanDispatched(t) =>
                /\ DOMAIN segs'[t].tr = {c[2] : c \in Range(active_connections)} \ {"English"}
                /\ \A l \in DOMAIN segs'[t].tr : segs'[t].tr[l].attempt = 0
          /\ \A l \in Tongues :
                /\ RequestSent(t, l) =>
                      \/ segs[t].tr[l].attempt = 0 /\ translate_text(t, l)
                      \/ AfterRateLimit(t, l)
                /\ Returned(t, l) => segs[t].tr[l].attempt >= 1
          /\ ( /\ gather_done(t)
               /\ \E ws \in DOMAIN sockets : active_connections = <<<<ws, "French">>>>
               /\ segs[t].tr["French"].result = Translated(segs[t].id, "French") ) =>
                /\ history' = Append(history,
                                     [original |-> Original(segs[t].id),
                                      translations |->
                                          [l \in {"French"} |-> Translated(segs[t].id, l)]])
                /\ wire' = [kind |-> "transcript", to |-> {active_connections[1][1]},
                            body |-> Translated(segs[t].id, "French")]]_vars

\* The single listener, in French, has just been handed the French text of the
\* first segment, and history holds that one record.
C28_Witness ==
    /\ active_connections = <<<<1, "French">>>>
    /\ Len(history) = 1
    /\ wire = [kind |-> "transcript", to |-> {1}, body |-> Translated(1, "French")]
    /\ segs[1].pc = "sending"

\* C29: a join handled while no broadcast is active hands the listener a blank
\* title and an empty history: whatever title or history message the handler
\* sends then carries no title and no record.
C29_IdleJoin ==
    [][\A ws \in DOMAIN sockets :
          (AllStartsReturned /\ ~is_running /\ (join_title(ws) \/ join_history(ws))) =>
              /\ wire'.kind = "meta" => wire'.body = BLANK_TITLE
              /\ wire'.kind = "history" => wire'.body = <<>>]_vars

\* The ways to find the entries of a listing among the rows of the table, each
\* entry at a row of its own.
Picks(out) ==
    {f \in [1..Len(out) -> 1..Len(scores)] :
        /\ \A m, n \in 1..Len(out) : m # n => f[m] # f[n]
        /\ \A n \in 1..Len(out) :
              out[n] = [name |-> scores[f[n]].name, score |-> scores[f[n]].score,
                        timestamp |-> scores[f[n]].timestamp]}

\* C30: a listing has at most LIMIT entries, in order of non-increasing score;
\* they are rows of the table, and no row left out has a higher score than an
\* entry of the listing.
C30_TopScores ==
    [][get_scores =>
          LET out == game'.leaderboard
          IN  /\ Len(out) <= LIMIT
              /\ \A m, n \in 1..Len(out) : m < n => out[m].score >= out[n].score
              /\ \E f \in Picks(out) :
                    \A r \in 1..Len(scores) : \A n \in 1..Len(out) :
                        (\A m \in 1..Len(out) : f[m] # r) => scores[r].score <= out[n].score]_vars

\* A listing of a table of more than LIMIT rows whose first row has the lowest
\* score: the listing is full, starts with the top score and leaves that row
\* out.
C30_Witness ==
    /\ Len(scores) > LIMIT
    /\ Len(game.leaderboard) = LIMIT
    /\ scores[1].score = 50
    /\ game.leaderboard[1].score = 1000
    /\ game.leaderboard[LIMIT].score > 50

C32_NoDuplicateDelivery ==
    [][\A ws \in DOMAIN sockets :
          ( /\ wire.kind = "transcript" /\ ws \in wire.to
            /\ wire'.kind = "history" /\ ws \in wire'.to ) =>
              wire.body \notin Range(wire'.body)]_vars

\* C33: while a session is running, a step of the watchdog of another session
\* (its poll, or the stop_stream it has begun) leaves the queue, the title, the
\* source, the history and is_running as they are.
C33_StaleWatchdogHarmless ==
    [][\A j \in 1..Len(dogs) :
          ( /\ is_running
            /\ dogs[j].by # current_url
            /\ watchdog_wake(j) \/ watchdog_stopping(j) ) =>
              UNCHANGED <<audio_queue, current_title, current_url, history, is_running>>]_vars

\* The step in which the stop_stream called by watchdog j returns, and the task
\* ends at the "break" that follows.
WatchdogStopReturns(j) ==
    /\ (watchdog_wake(j) /\ WatchdogTrips) \/ watchdog_stopping(j)
    /\ dogs'[j].pc = "done"

\* C34: a stop begun by a watchdog runs to its end although it cancels the
\* watchdog task itself, and it is a full stop: when it returns nothing is
\* running, no subprocess is alive, every processing task is finished or
\* cancelled, the queue is a new empty one, title, source and history are
\* cleared, and the last thing it did was to send the empty title to the
\* listeners.
C34_WatchdogStopIsFull ==
    /\ [][\A j \in 1..Len(dogs) : WatchdogStopReturns(j) =>
             /\ ~is_running'
             /\ LiveProcesses' = {}
             /\ \A k \in ActiveProcessing' : procs'[k].cancel
             /\ audio_queue'.items = <<>> /\ audio_queue'.id # audio_queue.id
             /\ current_title' = BLANK_TITLE
             /\ current_url' = None
             /\ history' = <<>>]_vars
    /\ [][\A j \in 1..Len(dogs) :
             (dogs[j].pc \notin StopPcs /\ dogs'[j].pc = "stop_meta") =>
                 wire' = broadcast_meta(active_connections, sockets, BLANK_TITLE)]_vars

\* The step in which ingest task i ends because its read returned no bytes: the
\* subprocess has exited (end of the source or a failure of ffmpeg).
IngestEnds(i) ==
    /\ ingests[i].proc = "exited"
    /\ run_ffmpeg_read(i)

\* C35: when the ingest subprocess reaches the end of its output only the
\* ingest task ends: the running flag, the session's data and every other task
\* are left as they were, so no stop is performed at that moment; and a running
\* session whose ingest has ended is stopped by the silence rule, so it is never
\* silent for more than SILENCE_TIMEOUT plus one polling interval.
C35_IngestEndIsSilent ==
    /\ [][\A i \in 1..Len(ingests) : (is_running /\ IngestEnds(i)) =>
             /\ ingests'[i].pc = "done"
             /\ is_running'
             /\ UNCHANGED <<current_url, current_title, history, audio_queue,
                            ffmpeg_process, processing_task, watchdog_task,
                            procs, dogs, starts>>]_vars
    /\ []( ( /\ is_running /\ ingests # <<>>
              /\ ingests[Len(ingests)].pc = "done"
              /\ ingests[Len(ingests)].proc = "exited" ) =>
                now - last_activity_time <= SILENCE_TIMEOUT + WATCHDOG_SLEEP )

\* The step in which watchdog j, at the end of a sleep, begins to stop the
\* running session.
WatchdogStops(j) == is_running /\ watchdog_wake(j) /\ ~is_running'

\* C36: the watchdog begins a stop only at a poll at which the session is older
\* than MAX_BROADCAST_DURATION or its last activity is more than SILENCE_TIMEOUT
\* old, and the last activity is the later of the last read that returned audio
\* bytes and the last transcript of more than five characters: each of the two
\* sets the timer to the present time.
C36_ActiveSessionNotStopped ==
    /\ [][\A j \in 1..Len(dogs) : WatchdogStops(j) =>
             \/ now - start_time > MAX_BROADCAST_DURATION
             \/ now - last_activity_time > SILENCE_TIMEOUT]_vars
    /\ [][\A i \in 1..Len(ingests) : \A n \in 1..READ_SIZE :
             (ingests[i].proc = "alive" /\ run_ffmpeg_chunk(i, n)) =>
                 last_activity_time' = now]_vars
    /\ [][\A t \in 1..Len(segs) :
             transcribe_and_distribute(t, "text") => last_activity_time' = now]_vars

\* A session older than SILENCE_TIMEOUT has just been polled and left running,
\* and no segment was ever cut: audio bytes alone have kept it alive.
C36_Witness ==
    /\ is_running
    /\ now - start_time > SILENCE_TIMEOUT
    /\ segs = <<>>
    /\ dogs[1].pc = "sleep" /\ dogs[1].wake > now

\* C37: segments are handed to transcription in the order their audio arrived:
\* of two segments of a running session, the one dispatched first holds the
\* earlier bytes of each subprocess.  Each segment is a task of its own, so the
\* records in history follow the order in which the tasks completed.
C37_DispatchFollowsArrival ==
    is_running =>
        \A t, u \in 1..Len(segs) : t < u =>
            \A m \in 1..Len(segs[t].wav_data) : \A n \in 1..Len(segs[u].wav_data) :
                segs[t].wav_data[m][1] = segs[u].wav_data[n][1] =>
                    segs[t].wav_data[m][2] < segs[u].wav_data[n][2]

\* The sum of the counts of a per-language breakdown.
RECURSIVE SumOver(_, _)
SumOver(counts, langs) ==
    IF langs = {} THEN 0
    ELSE LET l == CHOOSE x \in langs : TRUE
         IN  counts[l] + SumOver(counts, langs \ {l})

\* The step in which the handler of socket ws ends in an except clause.
HandlerEnds(ws) == sockets[ws].pc # "gone" /\ sockets'[ws].pc = "gone"

\* C38: a stats message reports as total the size of the registry it was built
\* from, with a breakdown that sums to the total, and goes to every registered
\* listener whose socket takes it; one is sent in every step that registers a
\* join, that ends a handler or that changes the registry in any way; and the
\* sends leave the registry alone: after a join the registry is the old one
\* without the socket's entry plus the new entry, after a handler's end it is
\* the old one without the socket, whether or not every send succeeded.
C38_StatsFollowRegistry ==
    /\ [][wire'.kind = "stats" =>
             /\ wire'.body.total = Len(active_connections')
             /\ SumOver(wire'.body.breakdown, DOMAIN wire'.body.breakdown)
                    = wire'.body.total
             /\ \A l \in DOMAIN wire'.body.breakdown : wire'.body.breakdown[l] > 0
             /\ wire'.to = {c[1] : c \in {d \in Range(active_connections') :
                                             sockets'[d[1]].open}}]_vars
    /\ [][active_connections' # active_connections => wire'.kind = "stats"]_vars
    /\ [][\A ws \in DOMAIN sockets :
             /\ (\E lang \in Langs : join(ws, lang)) =>
                    /\ wire'.kind = "stats" /\ ws \in wire'.to
                    /\ active_connections' =
                           Append(SelectSeq(active_connections, LAMBDA c : c[1] # ws),
                                  <<ws, sockets'[ws].lang>>)
             /\ HandlerEnds(ws) =>
                    /\ wire'.kind = "stats"
                    /\ active_connections' =
                           SelectSeq(active_connections, LAMBDA c : c[1] # ws)]_vars

\* A stats message was sent after a join while another registered listener's
\* socket was closed: that send failed and the listener is still registered.
C38_Witness ==
    /\ wire.kind = "stats"
    /\ \E ws \in DOMAIN sockets : sockets[ws].pc = "join_stats" /\ ws \in wire.to
    /\ \E c \in Range(active_connections) : ~sockets[c[1]].open /\ c[1] \notin wire.to
    /\ wire.body.total = 2

\* The step in which the task of segment t calls add_history.
Logs(t) ==
    /\ segs[t].pc \in {"transcribing", "gather"}
    /\ segs'[t].pc \notin {"transcribing", "gather"}
    /\ history' # history

\* C39: whatever the outcome of the append to the log on disk, the step in
\* which a segment's task calls add_history leaves the segment's record as the
\* last record of the in-memory history, and the task goes on to its broadcast:
\* when a registered listener has a text to get from the record, the pass
\* begins in that step with the send to the first such listener.
C39_LogFailureHarmless ==
    [][\A t \in 1..Len(segs) : Logs(t) =>
          /\ history' # <<>>
          /\ LET rec == history'[Len(history')]
             IN  /\ rec.original = Original(segs[t].id)
                 /\ (\E c \in Range(active_connections) :
                        TextFor(rec.original, rec.translations, c[2]) # NoText) =>
                            /\ segs'[t].pc = "sending"
                            /\ segs'[t].logged \in {"written", "failed"}
                            /\ wire'.kind = "transcript"]_vars

\* The write to the log failed for a segment; its record is the last of the
\* in-memory history and its text has just been delivered to a listener.
C39_Witness ==
    \E t \in 1..Len(segs) :
        /\ segs[t].logged = "failed"
        /\ segs[t].pc = "sending"
        /\ history # <<>> /\ history[Len(history)].original = Original(segs[t].id)
        /\ wire.kind = "transcript" /\ wire.to # {}
        /\ wire.body \in {Original(segs[t].id), Translated(segs[t].id, "French")}

====
